---- MODULE Spec2Model ----
(***************************************************************************)
(* The SiRiX -> MT5 trade copier of src/tradeCopierMT5.py as a state       *)
(* machine: the poll loop, the snapshot diff of process_master_changes,    *)
(* the follower operations (open, close, adjust volume, update stops) and  *)
(* the MT5 helpers they call.                                              *)
(*                                                                         *)
(* Units.  Prices are integers in units of 1e-7, so the stop tolerance     *)
(* 1e-6 is 10.  Lot sizes are integers in thousandths of a lot, so 0.10    *)
(* lots is 100 and the default volume step 0.01 is 10.  Master amounts are *)
(* integers in master units.                                               *)
(*                                                                         *)
(* Python's None is the empty sequence <<>> and a present value v is the   *)
(* one-element sequence <<v>>.                                             *)
(***************************************************************************)
EXTENDS Integers, Sequences, FiniteSets, TLC

VARIABLES
    config,                 \* the module-level configuration flags (lines 83-150)
    pc,                     \* position of poll_loop: "init", "loop" (the loop test), "fetch", "sleep", "exited"
    running,                \* global running (line 158)
    last_sirix_equity,      \* global last_sirix_equity (line 159)
    link_map,               \* global link_map (line 192)
    master_open_snapshot,   \* global master_open_snapshot (line 195)
    symbol_filling_cache,   \* global _symbol_filling_cache (line 405)
    warned_unmapped,        \* global _warned_unmapped (line 404), as the set of its keys
    preview_printed,        \* global preview_printed (line 160)
    tick,                   \* observation: what the last loop iteration did
    hist                    \* observation: outcome of the last reconciled iteration

vars == <<config, pc, running, last_sirix_equity, preview_printed, link_map,
          master_open_snapshot, symbol_filling_cache, warned_unmapped, tick, hist>>

\* ------------------------------------------------------------------ bounds

\* Master order numbers are 1..MaxOrder.
MaxOrder == 1

\* ------------------------------------------------------------ option values

None == <<>>
Some(v) == <<v>>
IsNone(o) == o = <<>>
Val(o) == o[1]

Abs(n) == IF n < 0 THEN -n ELSE n
Max2(a, b) == IF a >= b THEN a ELSE b
Min2(a, b) == IF a <= b THEN a ELSE b

\* ------------------------------------------------------- program constants

sirix_buy_value == 0
sirix_sell_value == 1
\* stop_change_abs_tolerance = 1e-6, in price units of 1e-7
stop_change_abs_tolerance == 10
\* lot_rule_fixed_lots = 0.10, in thousandths of a lot
lot_rule_fixed_lots == 100
\* lot_rule_multiplier = 1.0
lot_rule_multiplier == 1
\* the tolerance 1e-8 of the amount comparison (line 1018) is below one
\* master unit: integer amounts differ by more than it iff they differ
ORDER_FILLING_FOK == 0
ORDER_FILLING_IOC == 1
ORDER_FILLING_RETURN == 2
TRADE_RETCODE_PLACED == 10008
TRADE_RETCODE_DONE == 10009
TRADE_RETCODE_DONE_PARTIAL == 10010
\* a rejection other than "unsupported filling mode" (MT5: invalid stops)
TRADE_RETCODE_INVALID_STOPS == 10016
\* "unsupported filling mode", the literal 10030 of line 472
TRADE_RETCODE_INVALID_FILL == 10030
\* the fake ticket of a dry-run open (line 568)
DRY_TICKET == -1

symbol_units_per_lot ==
    [s \in {"EURUSD", "GBPUSD", "XAUUSD", "NQ100."} |->
        CASE s = "XAUUSD" -> 100
          [] s = "NQ100." -> 10
          [] OTHER -> 100000]

follower_units_per_lot == [s \in {} |-> 0]

symbol_map == [s \in {"NQ100.", "GER40."} |->
                 IF s = "NQ100." THEN "NAS100.i" ELSE "GER40.i"]

\* The configuration as the source sets it (lines 91-150).
SourceConfig ==
    [dry_run |-> FALSE, close_on_master_close |-> TRUE, copy_stops |-> TRUE,
     validate_stops |-> TRUE, volume_mode |-> "fixed",
     master_amount_mode |-> "units", warn_on_unmapped_symbol |-> TRUE,
     auto_login |-> TRUE]

\* ---------------------------------------------------------- utility helpers

sirix_is_buy(side) == side = sirix_buy_value

sirix_is_sell(side) == side = sirix_sell_value

\* canonical direction: 1 = buy, 0 = sell
sirix_dir_01(side) == IF sirix_is_buy(side) THEN 1 ELSE 0

\* symbol_units_per_lot.get(symbol, 100_000.0)
get_units_per_lot(symbol) ==
    IF symbol \in DOMAIN symbol_units_per_lot
    THEN symbol_units_per_lot[symbol] ELSE 100000

\* Python's round(x, ndigits) on a value held as an integer number of units:
\* the nearest multiple of grid, a tie going to the even multiple.
RoundHalfEven(x, grid) ==
    LET q == x \div grid
        r == x % grid
    IN  IF 2 * r < grid THEN q * grid
        ELSE IF 2 * r > grid THEN (q + 1) * grid
        ELSE IF q % 2 = 0 THEN q * grid ELSE (q + 1) * grid

\* The ratio follower_equity / master_equity as a fraction <<num, den>>.
\* follower_equity is None in a dry run; feq is what account_info() reports
\* (None when the call raises).
calc_equity_ratio(cfg, master_eq, feq) ==
    LET follower_equity == IF cfg.dry_run THEN None ELSE feq
    IN  IF IsNone(follower_equity) \/ Val(follower_equity) = 0
           \/ IsNone(master_eq) \/ Val(master_eq) = 0 \/ Val(master_eq) <= 0
        THEN <<1, 1>>
        ELSE <<Val(follower_equity), Val(master_eq)>>

\* A variant whose fixed rule falls through to the master's own lots.
convert_master_amount_to_lots_unfixed(cfg, master_symbol, master_amount, follower_symbol, master_eq, feq) ==
    LET units_per_lot ==
            IF follower_symbol \in DOMAIN follower_units_per_lot
            THEN follower_units_per_lot[follower_symbol]
            ELSE get_units_per_lot(master_symbol)
        base_lots ==
            CASE cfg.master_amount_mode = "lots" -> master_amount * 1000
              [] cfg.master_amount_mode = "units" ->
                    (master_amount * 1000) \div units_per_lot
              [] OTHER -> master_amount * 1000
        ratio == calc_equity_ratio(cfg, master_eq, feq)
        lots ==
            CASE cfg.volume_mode = "1to1" -> base_lots
              [] cfg.volume_mode = "fixed" -> base_lots
              [] cfg.volume_mode = "multiplier" -> base_lots * lot_rule_multiplier
              [] cfg.volume_mode = "equity_ratio" ->
                    (base_lots * ratio[1]) \div ratio[2]
              [] OTHER -> base_lots
    IN  Max2(lots, 0)

\* Lots in thousandths.  build_master_snapshot never stores a None amount
\* (line 844), so the None branch of line 251 has no caller.
convert_master_amount_to_lots(cfg, master_symbol, master_amount, follower_symbol, master_eq, feq) ==
    LET units_per_lot ==
            IF follower_symbol \in DOMAIN follower_units_per_lot
            THEN follower_units_per_lot[follower_symbol]
            ELSE get_units_per_lot(master_symbol)
        base_lots ==
            CASE cfg.master_amount_mode = "lots" -> master_amount * 1000
              [] cfg.master_amount_mode = "units" ->
                    (master_amount * 1000) \div units_per_lot
              [] OTHER -> master_amount * 1000
        ratio == calc_equity_ratio(cfg, master_eq, feq)
        lots ==
            CASE cfg.volume_mode = "1to1" -> base_lots
              [] cfg.volume_mode = "fixed" -> lot_rule_fixed_lots
              [] cfg.volume_mode = "multiplier" -> base_lots * lot_rule_multiplier
              [] cfg.volume_mode = "equity_ratio" ->
                    (base_lots * ratio[1]) \div ratio[2]
              [] OTHER -> base_lots
    IN  Max2(lots, 0)

\* A variant that clamps to the maximum only.
normalize_lot_unclamped(cfg, lots, info) ==
    IF cfg.dry_run \/ IsNone(info)
    THEN RoundHalfEven(lots, 10)
    ELSE LET i == Val(info)
             step == IF i.volume_step = 0 THEN 10 ELSE i.volume_step
             max_vol == IF i.volume_max = 0 THEN 100000 ELSE i.volume_max
             floored == (lots \div step) * step
         IN  Min2(floored, max_vol)

\* info is what mt5.symbol_info(symbol) returns (None or the symbol's record).
normalize_lot(cfg, lots, info) ==
    IF cfg.dry_run \/ IsNone(info)
    THEN RoundHalfEven(lots, 10)
    ELSE LET i == Val(info)
             step == IF i.volume_step = 0 THEN 10 ELSE i.volume_step
             min_vol == IF i.volume_min = 0 THEN 10 ELSE i.volume_min
             max_vol == IF i.volume_max = 0 THEN 100000 ELSE i.volume_max
             floored == (lots \div step) * step
         IN  Max2(min_vol, Min2(floored, max_vol))

\* 10^(7 - digits): the grid, in price units, of a price with `digits` decimals.
PriceGrid(digits) ==
    CASE digits = 7 -> 1
      [] digits = 6 -> 10
      [] digits = 5 -> 100
      [] OTHER -> 1000

validate_one_stop(lvl, is_sl, dir01, entry_price, min_dist) ==
    IF IsNone(lvl) THEN None
    ELSE LET p == Val(lvl)
             wrong_side ==
                 IF is_sl
                 THEN (dir01 = 1 /\ p >= entry_price) \/ (dir01 = 0 /\ p <= entry_price)
                 ELSE (dir01 = 1 /\ p <= entry_price) \/ (dir01 = 0 /\ p >= entry_price)
         IN  IF wrong_side THEN None
             ELSE IF min_dist # 0 /\ Abs(entry_price - p) < min_dist THEN None
             ELSE lvl

\* Returns <<sl, tp>>.
validate_stops_for_mt5(cfg, dir01, sl, tp, entry_price, info) ==
    IF ~cfg.validate_stops \/ cfg.dry_run \/ IsNone(info)
    THEN <<sl, tp>>
    ELSE LET i == Val(info)
             min_dist == IF i.point # 0 THEN i.stop_level * i.point ELSE 0
             sl1 == validate_one_stop(sl, TRUE, dir01, entry_price, min_dist)
             tp1 == validate_one_stop(tp, FALSE, dir01, entry_price, min_dist)
             rnd(l) == IF IsNone(l) THEN None
                       ELSE Some(RoundHalfEven(Val(l), PriceGrid(i.digits)))
         IN  <<rnd(sl1), rnd(tp1)>>

\* ----------------------------------------------------------- MT5 helpers

side_to_mt5_order_type(side) == IF sirix_is_buy(side) THEN "BUY" ELSE "SELL"

side_to_reverse_order_type(side) == IF sirix_is_buy(side) THEN "SELL" ELSE "BUY"

\* v is the venue's behaviour during one follower operation.
mt5_symbol_prepare(cfg, v) ==
    \/ cfg.dry_run
    \/ (~IsNone(v.info) /\ Val(v.info).visible)
    \/ v.select

\* <<bid, ask>>, each an option; the dry run's dummy price 1.0 is 10^7 units
mt5_current_prices(cfg, v) ==
    IF cfg.dry_run THEN <<Some(10000000), Some(10000000)>>
    ELSE IF IsNone(v.tick) THEN <<None, None>>
    ELSE <<Some(Val(v.tick).bid), Some(Val(v.tick).ask)>>

PriceOk(prices) ==
    /\ ~IsNone(prices[1]) /\ ~IsNone(prices[2])
    /\ Val(prices[1]) > 0 /\ Val(prices[2]) > 0

\* A variant that warns without recording that it did.
map_symbol_forgetful(st, cfg, sirix_symbol) ==
    IF sirix_symbol \in DOMAIN symbol_map
    THEN [st |-> st, symbol |-> symbol_map[sirix_symbol]]
    ELSE IF cfg.warn_on_unmapped_symbol /\ sirix_symbol \notin st.warned
    THEN [st |-> [st EXCEPT !.warnings = Append(@, [kind |-> "unmapped",
                                                    symbol |-> sirix_symbol])],
          symbol |-> sirix_symbol]
    ELSE [st |-> st, symbol |-> sirix_symbol]

\* st is the copier's state while one poll iteration runs: links, cache,
\* warned, and the iteration's logs (calls, sent, warnings, frames).
map_symbol(st, cfg, sirix_symbol) ==
    IF sirix_symbol \in DOMAIN symbol_map
    THEN [st |-> st, symbol |-> symbol_map[sirix_symbol]]
    ELSE IF cfg.warn_on_unmapped_symbol /\ sirix_symbol \notin st.warned
    THEN [st |-> [st EXCEPT !.warned = @ \cup {sirix_symbol},
                            !.warnings = Append(@, [kind |-> "unmapped",
                                                    symbol |-> sirix_symbol])],
          symbol |-> sirix_symbol]
    ELSE [st |-> st, symbol |-> sirix_symbol]

FillModes == <<ORDER_FILLING_FOK, ORDER_FILLING_IOC, ORDER_FILLING_RETURN>>

FillModeSet == {FillModes[i] : i \in 1..3}

\* lines 433-445: the mode the broker reports if it is one of the three,
\* else fill-or-kill
ReportedMode(cfg, v) ==
    IF cfg.dry_run \/ IsNone(v.info) THEN ORDER_FILLING_FOK
    ELSE IF ~IsNone(Val(v.info).filling_mode)
            /\ Val(Val(v.info).filling_mode) \in FillModeSet
    THEN Val(Val(v.info).filling_mode)
    ELSE ORDER_FILLING_FOK

\* A variant that asks the broker every time and takes no notice of the cache.
pick_filling_mode_fresh(st, cfg, symbol, v) ==
    [st |-> [st EXCEPT !.cache =
                [s \in DOMAIN @ \cup {symbol} |->
                    IF s = symbol THEN ReportedMode(cfg, v) ELSE @[s]]],
     mode |-> ReportedMode(cfg, v)]

pick_filling_mode(st, cfg, symbol, v) ==
    IF symbol \in DOMAIN st.cache
    THEN [st |-> st, mode |-> st.cache[symbol]]
    ELSE [st |-> [st EXCEPT !.cache =
                     [s \in DOMAIN @ \cup {symbol} |->
                         IF s = symbol THEN ReportedMode(cfg, v) ELSE @[s]]],
          mode |-> ReportedMode(cfg, v)]

IsDone(retcode) ==
    retcode \in {TRADE_RETCODE_DONE, TRADE_RETCODE_PLACED, TRADE_RETCODE_DONE_PARTIAL}

SetCache(st, symbol, mode) ==
    [st EXCEPT !.cache = [s \in DOMAIN @ \cup {symbol} |->
                             IF s = symbol THEN mode ELSE @[s]]]

LogSend(st, request, mode, retcode) ==
    [st EXCEPT !.sent = Append(@, [api |-> "order_send",
                                   order |-> request.order,
                                   symbol |-> request.symbol,
                                   action |-> request.action,
                                   type |-> request.type,
                                   volume |-> request.volume,
                                   position |-> request.position,
                                   sl |-> request.sl,
                                   tp |-> request.tp,
                                   type_filling |-> mode,
                                   retcode |-> retcode])]

\* The loop of lines 468-482 from position i of the candidate sequence.
RECURSIVE send_loop(_, _, _, _, _, _)
send_loop(st, request, symbol, seq, i, v) ==
    IF v.ret[seq[i]] = TRADE_RETCODE_INVALID_FILL /\ i < Len(seq)
    THEN send_loop(LogSend(st, request, seq[i], v.ret[seq[i]]),
                   request, symbol, seq, i + 1, v)
    ELSE [st |-> IF IsDone(v.ret[seq[i]])
                 THEN SetCache(LogSend(st, request, seq[i], v.ret[seq[i]]),
                               symbol, seq[i])
                 ELSE LogSend(st, request, seq[i], v.ret[seq[i]]),
          result |-> [retcode |-> v.ret[seq[i]], order |-> v.order,
                      deal |-> v.deal]]

\* A variant of lines 460-465 that tries the three modes in their fixed order.
send_candidates_fixed(p, request, symbol, v) ==
    send_loop(p.st, request, symbol, FillModes, 1, v)

\* lines 460-484: p is pick_filling_mode's result
send_candidates(p, request, symbol, v) ==
    send_loop(p.st, request, symbol,
              <<p.mode>> \o SelectSeq(FillModes, LAMBDA m : m # p.mode), 1, v)

order_send_with_fallback(st, cfg, request, symbol, v) ==
    IF cfg.dry_run
    THEN [st |-> st,
          result |-> [retcode |-> TRADE_RETCODE_DONE, order |-> -1, deal |-> -1]]
    ELSE send_candidates(pick_filling_mode(st, cfg, symbol, v), request, symbol, v)

\* mt5.positions_get(ticket=ticket); pos is the volume of the position the
\* venue reports, None when it reports no position
positions_get(st, x, ticket, pos) ==
    [st EXCEPT !.sent = Append(@, [api |-> "positions_get", order |-> x,
                                   ticket |-> ticket, found |-> ~IsNone(pos),
                                   volume |-> pos])]

\* mt5.symbol_info_tick(symbol), the query of mt5_current_prices for the
\* quote; a dry run makes none
symbol_info_tick(st, cfg, x, v) ==
    IF cfg.dry_run THEN st
    ELSE [st EXCEPT !.sent = Append(@, [api |-> "symbol_info_tick", order |-> x,
                                        found |-> ~IsNone(v.tick)])]

\* A follower operation and how it ended: why is "ok", or the reason it failed.
LogCall(st, op, x, why) ==
    [st EXCEPT !.calls = Append(@, [op |-> op, order |-> x, ok |-> why = "ok",
                                    why |-> why])]

RejectWhy(retcode) ==
    IF retcode = TRADE_RETCODE_INVALID_FILL THEN "fill" ELSE "rejected"

\* ------------------------------------------------------ MT5 trade operations
\* Each operation is written as its successive steps, one operator per step,
\* a step receiving what the steps before it computed.

OpenFailed(st, x, nlots, why) ==
    [st |-> LogCall(st, "open", x, why),
     ticket |-> None, lots |-> nlots, sl |-> None, tp |-> None]

\* lines 571-580: the result of the send
open_trade_sent(r, x, nlots, stops) ==
    IF ~IsDone(r.result.retcode)
    THEN OpenFailed(r.st, x, nlots, RejectWhy(r.result.retcode))
    ELSE [st |-> LogCall(r.st, "open", x, "ok"),
          ticket |-> Some(IF r.result.order # 0 THEN r.result.order
                          ELSE r.result.deal),
          lots |-> nlots, sl |-> stops[1], tp |-> stops[2]]

\* lines 549-570: the request, the dry-run return, the send
open_trade_send(m, cfg, mp, nlots, stops, v) ==
    IF cfg.dry_run
    THEN [st |-> LogCall(m.st, "open", mp.order_number, "ok"),
          ticket |-> Some(DRY_TICKET), lots |-> nlots,
          sl |-> stops[1], tp |-> stops[2]]
    ELSE open_trade_sent(
             order_send_with_fallback(
                 m.st, cfg,
                 [order |-> mp.order_number, symbol |-> m.symbol, action |-> "DEAL",
                  type |-> side_to_mt5_order_type(mp.side), volume |-> nlots,
                  position |-> None, sl |-> stops[1], tp |-> stops[2]],
                 m.symbol, v),
             mp.order_number, nlots, stops)

\* lines 535-547: the price of the order and the stops it carries
open_trade_priced(m, cfg, mp, nlots, sl, tp, prices, v) ==
    IF ~PriceOk(prices) THEN OpenFailed(m.st, mp.order_number, nlots, "noquote")
    ELSE open_trade_send(
             m, cfg, mp, nlots,
             IF ~cfg.copy_stops THEN <<None, None>>
             ELSE validate_stops_for_mt5(
                      cfg, sirix_dir_01(mp.side), sl, tp,
                      IF side_to_mt5_order_type(mp.side) = "BUY"
                      THEN Val(prices[2]) ELSE Val(prices[1]),
                      v.info),
             v)

\* lines 527-533: m is map_symbol's result, nlots the normalized lot size
open_trade_prepared(m, cfg, mp, nlots, sl, tp, v) ==
    IF ~mt5_symbol_prepare(cfg, v)
    THEN OpenFailed(m.st, mp.order_number, nlots, "prepare")
    ELSE IF nlots <= 0 THEN OpenFailed(m.st, mp.order_number, nlots, "lots")
    ELSE open_trade_priced([m EXCEPT !.st = symbol_info_tick(@, cfg, mp.order_number, v)],
                           cfg, mp, nlots, sl, tp, mt5_current_prices(cfg, v), v)

\* Returns [st, ticket, lots, sl, tp]: ticket is None on failure; lots, sl, tp
\* are what the order carried.
mt5_open_trade(st, cfg, mp, lots, sl, tp, v) ==
    open_trade_prepared(map_symbol(st, cfg, mp.symbol), cfg, mp,
                        normalize_lot(cfg, lots, v.info), sl, tp, v)

CloseResult(st, x, why) == [st |-> LogCall(st, "close", x, why), ok |-> why = "ok"]

\* lines 622-628: the result of the send
close_trade_sent(r, x) ==
    CloseResult(r.st, x,
                IF r.result.retcode \in {TRADE_RETCODE_DONE,
                                         TRADE_RETCODE_DONE_PARTIAL}
                THEN "ok" ELSE RejectWhy(r.result.retcode))

\* lines 595-622: st1 is the state after positions_get
close_trade_live(st1, cfg, link, prices, v) ==
    IF IsNone(v.pos) THEN CloseResult(st1, link.master_order_number, "notfound")
    ELSE IF ~PriceOk(prices)
    THEN CloseResult(symbol_info_tick(st1, cfg, link.master_order_number, v),
                     link.master_order_number, "noquote")
    ELSE close_trade_sent(
             order_send_with_fallback(
                 symbol_info_tick(st1, cfg, link.master_order_number, v), cfg,
                 [order |-> link.master_order_number,
                  symbol |-> link.follower_symbol, action |-> "DEAL",
                  type |-> side_to_reverse_order_type(link.side),
                  volume |-> Val(v.pos), position |-> Some(link.follower_ticket),
                  sl |-> None, tp |-> None],
                 link.follower_symbol, v),
             link.master_order_number)

\* Returns [st, ok].
mt5_close_trade(st, cfg, link, v) ==
    IF ~mt5_symbol_prepare(cfg, v)
    THEN CloseResult(st, link.master_order_number, "prepare")
    ELSE IF cfg.dry_run THEN CloseResult(st, link.master_order_number, "ok")
    ELSE close_trade_live(
             positions_get(st, link.master_order_number, link.follower_ticket,
                           v.pos),
             cfg, link, mt5_current_prices(cfg, v), v)

SetVolume(st, x, vol) == [st EXCEPT !.links[x].follower_volume = vol]

AdjustResult(st, x, new_lots, why) ==
    [st |-> [st EXCEPT !.calls = Append(@, [op |-> "adjust", order |-> x,
                                            ok |-> why = "ok", why |-> why,
                                            target |-> new_lots])],
     ok |-> why = "ok"]

\* lines 667-672: the target is zero, c is mt5_close_trade's result
adjust_volume_closed(c, x, new_lots) ==
    IF c.ok THEN AdjustResult(SetVolume(c.st, x, 0), x, new_lots, "ok")
    ELSE AdjustResult(c.st, x, new_lots, "close")

\* A variant of lines 726-733 that takes the requested target for the volume.
adjust_volume_sent_assumed(r, x, ticket, new_lots, v) ==
    IF ~IsDone(r.result.retcode)
    THEN AdjustResult(r.st, x, new_lots, RejectWhy(r.result.retcode))
    ELSE AdjustResult(
             SetVolume(positions_get(r.st, x, ticket, v.pos_after), x, new_lots),
             x, new_lots, "ok")

\* lines 716-736: the result of the send and the refresh from the venue
adjust_volume_sent(r, x, ticket, new_lots, v) ==
    IF ~IsDone(r.result.retcode)
    THEN AdjustResult(r.st, x, new_lots, RejectWhy(r.result.retcode))
    ELSE AdjustResult(
             SetVolume(positions_get(r.st, x, ticket, v.pos_after), x,
                       IF IsNone(v.pos_after) THEN 0 ELSE Val(v.pos_after)),
             x, new_lots, "ok")

\* lines 674-716: diff is the normalized target minus the live volume
adjust_volume_diff(st1, cfg, link, new_lots, diff, v) ==
    IF diff = 0 THEN AdjustResult(st1, link.master_order_number, new_lots, "ok")
    ELSE IF ~PriceOk(mt5_current_prices(cfg, v))
    THEN AdjustResult(symbol_info_tick(st1, cfg, link.master_order_number, v),
                      link.master_order_number, new_lots, "noquote")
    ELSE adjust_volume_sent(
             order_send_with_fallback(
                 symbol_info_tick(st1, cfg, link.master_order_number, v), cfg,
                 IF diff > 0
                 THEN [order |-> link.master_order_number,
                       symbol |-> link.follower_symbol, action |-> "DEAL",
                       type |-> side_to_mt5_order_type(link.side),
                       volume |-> diff, position |-> None,
                       sl |-> None, tp |-> None]
                 ELSE [order |-> link.master_order_number,
                       symbol |-> link.follower_symbol, action |-> "DEAL",
                       type |-> side_to_reverse_order_type(link.side),
                       volume |-> Abs(diff),
                       position |-> Some(link.follower_ticket),
                       sl |-> None, tp |-> None],
                 link.follower_symbol, v),
             link.master_order_number, link.follower_ticket, new_lots, v)

\* A variant of lines 655-674 that takes the link's recorded volume for the
\* current one.
adjust_volume_live_recorded(st1, cfg, link, new_lots, nlots, v) ==
    IF IsNone(v.pos)
    THEN AdjustResult(st1, link.master_order_number, new_lots, "notfound")
    ELSE IF nlots <= 0
    THEN adjust_volume_closed(mt5_close_trade(st1, cfg, link, v),
                              link.master_order_number, new_lots)
    ELSE adjust_volume_diff(st1, cfg, link, new_lots, nlots - link.follower_volume, v)

\* lines 655-672: st1 is the state after positions_get
adjust_volume_live(st1, cfg, link, new_lots, nlots, v) ==
    IF IsNone(v.pos)
    THEN AdjustResult(st1, link.master_order_number, new_lots, "notfound")
    ELSE IF nlots <= 0
    THEN adjust_volume_closed(mt5_close_trade(st1, cfg, link, v),
                              link.master_order_number, new_lots)
    ELSE adjust_volume_diff(st1, cfg, link, new_lots, nlots - Val(v.pos), v)

\* Returns [st, ok]; writes the link's follower_volume in place.
mt5_adjust_volume(st, cfg, x, new_lots, v) ==
    IF ~mt5_symbol_prepare(cfg, v) THEN AdjustResult(st, x, new_lots, "prepare")
    ELSE IF cfg.dry_run
    THEN AdjustResult(SetVolume(st, x, new_lots), x, new_lots, "ok")
    ELSE adjust_volume_live(
             positions_get(st, x, st.links[x].follower_ticket, v.pos), cfg,
             st.links[x], new_lots, normalize_lot(cfg, new_lots, v.info), v)

StopsResult(st, x, why) == [st |-> LogCall(st, "stops", x, why), ok |-> why = "ok"]

SetStops(st, x, sl, tp) == [st EXCEPT !.links[x].sl = sl, !.links[x].tp = tp]

\* A variant that writes the new levels to the link before it looks at the
\* venue's answer.
update_stops_sent_eager(r, x, sl, tp) ==
    IF ~IsDone(r.result.retcode)
    THEN StopsResult(SetStops(r.st, x, sl, tp), x, RejectWhy(r.result.retcode))
    ELSE StopsResult(SetStops(r.st, x, sl, tp), x, "ok")

\* lines 772-781: the result of the send
update_stops_sent(r, x, sl, tp) ==
    IF ~IsDone(r.result.retcode)
    THEN StopsResult(r.st, x, RejectWhy(r.result.retcode))
    ELSE StopsResult(SetStops(r.st, x, sl, tp), x, "ok")

\* lines 754-772: sl and tp after the snap to the link's values
update_stops_snapped(st, cfg, link, sl, tp, v) ==
    IF sl = link.sl /\ tp = link.tp
    THEN StopsResult(st, link.master_order_number, "ok")
    ELSE IF cfg.dry_run
    THEN StopsResult(SetStops(st, link.master_order_number, sl, tp),
                     link.master_order_number, "ok")
    ELSE update_stops_sent(
             order_send_with_fallback(
                 st, cfg,
                 [order |-> link.master_order_number,
                  symbol |-> link.follower_symbol, action |-> "SLTP",
                  type |-> "NONE", volume |-> 0,
                  position |-> Some(link.follower_ticket), sl |-> sl, tp |-> tp],
                 link.follower_symbol, v),
             link.master_order_number, sl, tp)

\* lines 747-752: a new level within the tolerance of the old one is the old one
SnapStop(new, old) ==
    IF ~IsNone(new) /\ ~IsNone(old)
       /\ Abs(Val(new) - Val(old)) < stop_change_abs_tolerance
    THEN old ELSE new

\* Returns [st, ok]; writes the link's sl and tp in place.
mt5_update_stops(st, cfg, x, sl, tp, v) ==
    IF ~mt5_symbol_prepare(cfg, v) THEN StopsResult(st, x, "prepare")
    ELSE update_stops_snapped(st, cfg, st.links[x],
                              SnapStop(sl, st.links[x].sl),
                              SnapStop(tp, st.links[x].tp), v)

\* --------------------------------------------------------- master snapshot

\* extract_stops: None, "" and 0 are "not set".  The payload holds a level as
\* an option; a raw 0 is Some(0).
extract_stop(raw) == IF IsNone(raw) \/ Val(raw) = 0 THEN None ELSE raw

\* A variant that keeps an unrecognised Side as it came.
build_master_snapshot_raw(payload) ==
    [x \in DOMAIN payload |->
        [order_number |-> x,
         symbol |-> payload[x].Symbol,
         side |-> payload[x].Side,
         amount |-> payload[x].Amount,
         stop_loss |-> extract_stop(payload[x].StopLoss),
         take_profit |-> extract_stop(payload[x].TakeProfit)]]

\* payload is the OpenPositions list as a function from OrderNumber to the
\* raw item (a list with a repeated OrderNumber collapses to its last item,
\* line 856).  An unrecognised Side becomes BUY (lines 840-842).
build_master_snapshot(payload) ==
    [x \in DOMAIN payload |->
        [order_number |-> x,
         symbol |-> payload[x].Symbol,
         side |-> IF payload[x].Side \in {sirix_buy_value, sirix_sell_value}
                  THEN payload[x].Side ELSE sirix_buy_value,
         amount |-> payload[x].Amount,
         stop_loss |-> extract_stop(payload[x].StopLoss),
         take_profit |-> extract_stop(payload[x].TakeProfit)]]

\* update_master_equity: the stored value changes only when the payload has one
update_master_equity(old, eq) == IF IsNone(eq) THEN old ELSE eq

\* ---------------------------------------------------------- copy engine core

\* A variant that reports a change whenever a stop is present.
stops_changed_any(old, new) == ~(IsNone(old) /\ IsNone(new))

stops_changed(old, new) ==
    IF IsNone(old) # IsNone(new) THEN TRUE
    ELSE IF IsNone(old) /\ IsNone(new) THEN FALSE
    ELSE Abs(Val(old) - Val(new)) > stop_change_abs_tolerance

RemoveLink(st, x) ==
    [st EXCEPT !.links = [k \in DOMAIN @ \ {x} |-> @[k]]]

PutLink(st, x, link) ==
    [st EXCEPT !.links = [k \in DOMAIN @ \cup {x} |-> IF k = x THEN link ELSE @[k]]]

\* A variant of lines 921-932 that keys the link by the follower's ticket.
open_follower_linked_by_ticket(r, mp, follower_symbol, lots) ==
    IF IsNone(r.ticket) THEN r.st
    ELSE PutLink(r.st, Val(r.ticket),
                 [master_order_number |-> mp.order_number,
                  master_symbol |-> mp.symbol,
                  follower_symbol |-> follower_symbol,
                  follower_ticket |-> Val(r.ticket),
                  follower_volume |-> lots,
                  side |-> mp.side,
                  sl |-> mp.stop_loss,
                  tp |-> mp.take_profit])

\* lines 917-932: r is mt5_open_trade's result
open_follower_linked(r, mp, follower_symbol, lots) ==
    IF IsNone(r.ticket) THEN r.st
    ELSE PutLink(r.st, mp.order_number,
                 [master_order_number |-> mp.order_number,
                  master_symbol |-> mp.symbol,
                  follower_symbol |-> follower_symbol,
                  follower_ticket |-> Val(r.ticket),
                  follower_volume |-> lots,
                  side |-> mp.side,
                  sl |-> mp.stop_loss,
                  tp |-> mp.take_profit])

\* lines 913-916: m is map_symbol's result, lots the converted amount
open_follower_sized(m, cfg, mp, lots, v) ==
    open_follower_linked(
        mt5_open_trade(m.st, cfg, mp, lots, mp.stop_loss, mp.take_profit, v),
        mp, m.symbol, lots)

ConvertFor(cfg, mp, follower_symbol, master_eq, v) ==
    convert_master_amount_to_lots(cfg, mp.symbol, mp.amount, follower_symbol,
                                  master_eq, v.equity)

OpenWith(m, cfg, mp, master_eq, v) ==
    open_follower_sized(m, cfg, mp, ConvertFor(cfg, mp, m.symbol, master_eq, v), v)

open_follower_for_master(st, cfg, mp, master_eq, v) ==
    OpenWith(map_symbol(st, cfg, mp.symbol), cfg, mp, master_eq, v)

\* Variants of lines 951-952: the link removed whatever the close returned,
\* and the link removed when the close failed.
close_follower_closed_always(c, x) == RemoveLink(c.st, x)

close_follower_closed_inverted(c, x) == IF c.ok THEN c.st ELSE RemoveLink(c.st, x)

\* lines 951-952: c is mt5_close_trade's result
close_follower_closed(c, x) == IF c.ok THEN RemoveLink(c.st, x) ELSE c.st

\* A variant whose dry run skips the close altogether.
close_follower_for_master_dry(st, cfg, x, v) ==
    IF ~cfg.close_on_master_close THEN st
    ELSE IF x \notin DOMAIN st.links THEN st
    ELSE IF cfg.dry_run THEN st
    ELSE close_follower_closed(mt5_close_trade(st, cfg, st.links[x], v), x)

\* A variant that closes the follower whatever the configuration says.
close_follower_for_master_always(st, cfg, x, v) ==
    IF x \notin DOMAIN st.links THEN st
    ELSE IF cfg.dry_run /\ st.links[x].follower_ticket = DRY_TICKET
    THEN RemoveLink(st, x)
    ELSE close_follower_closed(mt5_close_trade(st, cfg, st.links[x], v), x)

close_follower_for_master(st, cfg, x, v) ==
    IF ~cfg.close_on_master_close THEN st
    ELSE IF x \notin DOMAIN st.links THEN st
    ELSE IF cfg.dry_run /\ st.links[x].follower_ticket = DRY_TICKET
    THEN RemoveLink(st, x)
    ELSE close_follower_closed(mt5_close_trade(st, cfg, st.links[x], v), x)

\* lines 972-976: a is mt5_adjust_volume's result
adjust_follower_adjusted(a, x) ==
    IF a.ok /\ a.st.links[x].follower_volume <= 0
    THEN RemoveLink(a.st, x) ELSE a.st

\* lines 964-972: m is map_symbol's result, new_lots the converted amount
adjust_follower_sized(m, cfg, x, new_lots, v) ==
    IF cfg.dry_run THEN SetVolume(m.st, x, new_lots)
    ELSE adjust_follower_adjusted(mt5_adjust_volume(m.st, cfg, x, new_lots, v), x)

AdjustWith(m, cfg, mp, master_eq, v) ==
    adjust_follower_sized(m, cfg, mp.order_number,
                          ConvertFor(cfg, mp, m.symbol, master_eq, v), v)

adjust_follower_for_master(st, cfg, mp, master_eq, v) ==
    IF mp.order_number \notin DOMAIN st.links
    THEN open_follower_for_master(st, cfg, mp, master_eq, v)
    ELSE AdjustWith(map_symbol(st, cfg, mp.symbol), cfg, mp, master_eq, v)

\* lines 989-1002: the stops after the validation against the live quote
update_follower_stops_priced(st, cfg, mp, link, sl, tp, prices, v) ==
    mt5_update_stops(
        IF cfg.validate_stops THEN symbol_info_tick(st, cfg, mp.order_number, v) ELSE st,
        cfg, mp.order_number,
        IF cfg.validate_stops /\ ~IsNone(prices[1]) /\ ~IsNone(prices[2])
        THEN validate_stops_for_mt5(
                 cfg, sirix_dir_01(link.side), sl, tp,
                 IF sirix_is_buy(link.side) THEN Val(prices[2]) ELSE Val(prices[1]),
                 v.info)[1]
        ELSE sl,
        IF cfg.validate_stops /\ ~IsNone(prices[1]) /\ ~IsNone(prices[2])
        THEN validate_stops_for_mt5(
                 cfg, sirix_dir_01(link.side), sl, tp,
                 IF sirix_is_buy(link.side) THEN Val(prices[2]) ELSE Val(prices[1]),
                 v.info)[2]
        ELSE tp,
        v).st

update_follower_stops_for_master(st, cfg, mp, v) ==
    IF mp.order_number \notin DOMAIN st.links THEN st
    ELSE update_follower_stops_priced(
             st, cfg, mp, st.links[mp.order_number],
             IF cfg.copy_stops THEN mp.stop_loss ELSE None,
             IF cfg.copy_stops THEN mp.take_profit ELSE None,
             mt5_current_prices(cfg, v), v)

\* The link of order x, None when the link table has none.
LinkOpt(st, x) == IF x \in DOMAIN st.links THEN Some(st.links[x]) ELSE None

\* One follower action of the engine for order x, from the state st0 to the
\* state st1: the calls it logged (those after the first `from`, up to `to`),
\* the venue calls it made (after the first `sfrom`, up to `sto`), and the
\* filling-mode cache and the link of x before and after it.
Framed(st0, st1, x) ==
    [st1 EXCEPT !.frames = Append(@, [order |-> x,
                                      from |-> Len(st0.calls),
                                      to |-> Len(st1.calls),
                                      sfrom |-> Len(st0.sent),
                                      sto |-> Len(st1.sent),
                                      pre_cache |-> st0.cache,
                                      post_cache |-> st1.cache,
                                      pre |-> LinkOpt(st0, x),
                                      post |-> LinkOpt(st1, x)])]

\* process_stops without the test of the copy-stops flag
process_stops_unflagged(st1, cfg, prev, mp, v) ==
    IF \/ stops_changed(prev[mp.order_number].stop_loss, mp.stop_loss)
       \/ stops_changed(prev[mp.order_number].take_profit, mp.take_profit)
    THEN Framed(st1, update_follower_stops_for_master(st1, cfg, mp, v),
                mp.order_number)
    ELSE st1

\* One order number of the new snapshot (the body of the loop of line 1010).
\* vs[1] is the venue during the open or the adjust, vs[2] during the stop update.
\* lines 1021-1024: st1 is the state after the size check
process_stops(st1, cfg, prev, mp, v) ==
    IF cfg.copy_stops
       /\ (stops_changed(prev[mp.order_number].stop_loss, mp.stop_loss)
           \/ stops_changed(prev[mp.order_number].take_profit, mp.take_profit))
    THEN Framed(st1, update_follower_stops_for_master(st1, cfg, mp, v),
                mp.order_number)
    ELSE st1

process_one(st, cfg, prev, mp, master_eq, vs) ==
    IF mp.order_number \notin DOMAIN prev
    THEN Framed(st, open_follower_for_master(st, cfg, mp, master_eq, vs[1]),
                mp.order_number)
    ELSE process_stops(
             IF prev[mp.order_number].amount # mp.amount
             THEN Framed(st, adjust_follower_for_master(st, cfg, mp, master_eq, vs[1]),
                         mp.order_number)
             ELSE st,
             cfg, prev, mp, vs[2])

MinOf(S) == CHOOSE m \in S : \A n \in S : m <= n

\* The loop of line 1010 over the order numbers in todo, in ascending order.
RECURSIVE process_new(_, _, _, _, _, _, _)
process_new(st, cfg, prev, new_snap, master_eq, env, todo) ==
    IF todo = {} THEN st
    ELSE LET x == MinOf(todo)
         IN  process_new(process_one(st, cfg, prev, new_snap[x], master_eq, env[x]),
                         cfg, prev, new_snap, master_eq, env, todo \ {x})

\* The loop of line 1028 over closed_ids.
RECURSIVE process_closed(_, _, _, _)
process_closed(st, cfg, env, todo) ==
    IF todo = {} THEN st
    ELSE LET x == MinOf(todo)
         IN  process_closed(Framed(st, close_follower_for_master(st, cfg, x, env[x][1]), x),
                            cfg, env, todo \ {x})

\* A variant that keeps the previous snapshot when an operation failed.
process_master_changes_keeps(st, cfg, prev, new_snap, master_eq, env) ==
    LET st2 == process_closed(process_new(st, cfg, prev, new_snap, master_eq, env,
                                          DOMAIN new_snap),
                              cfg, env, DOMAIN prev \ DOMAIN new_snap)
    IN  [st |-> st2,
         master_open_snapshot |->
             IF \E i \in 1..Len(st2.calls) : ~st2.calls[i].ok
             THEN prev ELSE new_snap]

\* The two loops, then the snapshot replaced whatever the operations returned.
process_master_changes(st, cfg, prev, new_snap, master_eq, env) ==
    [st |-> process_closed(process_new(st, cfg, prev, new_snap, master_eq, env,
                                       DOMAIN new_snap),
                           cfg, env, DOMAIN prev \ DOMAIN new_snap),
     master_open_snapshot |-> new_snap]

\* ------------------------------------------------ inputs: master and venue

Orders == 1..MaxOrder

EmptyMap == [k \in {} |-> 0]

\* What the master data source can return for one order number.  A master
\* position keeps its symbol and its side while it is open: odd order
\* numbers are buys, even ones sells.  Between two polls the master may
\* change the amount, the stops, or both of order 1; the further orders keep
\* one amount and no stops, and are there for what the orders of one
\* snapshot do to each other.
Amounts == {100000, 50000}

StopPairs == {<<None, None>>, <<Some(900), Some(1100)>>}

RawItems(x) ==
    IF x = 1
    THEN {[Symbol |-> "EURUSD", Side |-> sirix_buy_value,
           Amount |-> a, StopLoss |-> sp[1], TakeProfit |-> sp[2]] :
              a \in Amounts, sp \in StopPairs}
    ELSE {[Symbol |-> "EURUSD",
           Side |-> IF x % 2 = 1 THEN sirix_buy_value ELSE sirix_sell_value,
           Amount |-> 100000, StopLoss |-> None, TakeProfit |-> None]}

RECURSIVE PayloadsOver(_)
PayloadsOver(todo) ==
    IF todo = {} THEN {EmptyMap}
    ELSE LET x == MinOf(todo)
             rest == PayloadsOver(todo \ {x})
         IN  rest \cup {[k \in DOMAIN p \cup {x} |-> IF k = x THEN item ELSE p[k]] :
                           p \in rest, item \in RawItems(x)}

OpenPositionsPayloads == PayloadsOver(Orders)

Equities == {None, Some(5000)}

\* The follower venue during one operation: symbol_info, symbol_select, the
\* quote, the position found before and after the order, the retcode the
\* venue gives each filling mode, the order and deal numbers of the result,
\* and the account equity.
Info0 ==
    [visible |-> TRUE, volume_step |-> 10, volume_min |-> 10,
     volume_max |-> 100000, point |-> 1, stop_level |-> 0, digits |-> 7,
     filling_mode |-> None]

AllModes(rc) == [m \in FillModeSet |-> rc]

\* The live position holds 1.0 lot before an order and 0.5 lot after it.
Happy ==
    [info |-> Some(Info0), select |-> TRUE,
     tick |-> Some([bid |-> 1000, ask |-> 1010]),
     pos |-> Some(1000), pos_after |-> Some(500),
     ret |-> AllModes(TRADE_RETCODE_DONE),
     order |-> 7, deal |-> 7, equity |-> Some(5000)]

\* the venue rejects the order (not for its filling mode)
Rejecting == [Happy EXCEPT !.ret = AllModes(TRADE_RETCODE_INVALID_STOPS)]

\* the position is not found
NotFound == [Happy EXCEPT !.pos = None]

\* no quote
NoQuote == [Happy EXCEPT !.tick = None]

\* the symbol is unknown to the venue
NoSymbol == [Happy EXCEPT !.info = None, !.select = FALSE]

VenueBehaviours == {Happy, Rejecting, NotFound, NoQuote, NoSymbol}

\* The behaviours of V that answer every query.
Answering(V) == {v \in V : ~IsNone(v.info) /\ ~IsNone(v.tick) /\ ~IsNone(v.pos)}

\* The behaviours of V that answer every query and accept an order in one
\* filling mode at least.
Accepting(V) ==
    {v \in Answering(V) : \E m \in FillModeSet : IsDone(v.ret[m])}

\* Order numbers whose processing may reach an open, an adjust or a close;
\* and those that may reach a stop update.
FirstCall(prev, new_snap, x) ==
    \/ x \in DOMAIN new_snap /\ x \notin DOMAIN prev
    \/ x \in DOMAIN new_snap /\ x \in DOMAIN prev /\ prev[x].amount # new_snap[x].amount
    \/ x \in DOMAIN prev /\ x \notin DOMAIN new_snap

SecondCall(prev, new_snap, x) ==
    /\ x \in DOMAIN new_snap /\ x \in DOMAIN prev
    /\ \/ stops_changed(prev[x].stop_loss, new_snap[x].stop_loss)
       \/ stops_changed(prev[x].take_profit, new_snap[x].take_profit)

\* The venue behaviours of one reconcile, per order number: a function from
\* the order numbers to pairs of behaviours.  An operation that is not
\* reached reads none, so its behaviour is fixed.  Order 1 meets every
\* behaviour of V, the further orders those that answer every query and
\* accept the order.
RECURSIVE Envs(_, _, _, _)
Envs(prev, new_snap, V, todo) ==
    IF todo = {} THEN {EmptyMap}
    ELSE LET x == MinOf(todo)
             W == IF x = 1 THEN V ELSE Accepting(V)
             V1 == IF FirstCall(prev, new_snap, x) THEN W ELSE {Happy}
             V2 == IF SecondCall(prev, new_snap, x) THEN W ELSE {Happy}
         IN  {[k \in DOMAIN e \cup {x} |-> IF k = x THEN <<v1, v2>> ELSE e[k]] :
                  e \in Envs(prev, new_snap, V, todo \ {x}), v1 \in V1, v2 \in V2}

\* ------------------------------------------------------------ the poll loop

\* The record of the run: the calls that failed in the last reconcile;
\* whether the last iteration fetched the snapshot it already had and saw no
\* call fail; and, when no call of the last reconcile failed, the orders its
\* snapshot had and the one before lacked, each with the number of its open
\* and close calls; and how many times each unmapped symbol has been warned
\* about since the start of the process; how init_mt5 ended; whether the
\* loop has fetched, or tried to; and whether shutdown_mt5 has been called.
Hist0 ==
    [failed |-> {}, quiet |-> FALSE, fresh |-> {}, unmapped |-> EmptyMap,
     init |-> "none", fetched |-> FALSE, shutdown |-> FALSE]

\* What the last iteration of the loop did: the state and the record it
\* started from, the snapshot it fetched, and the calls it made.
NoTick ==
    [kind |-> "none", payload |-> EmptyMap, prev |-> EmptyMap,
     snap |-> EmptyMap, links |-> EmptyMap,
     equity |-> None, cache |-> EmptyMap, warned |-> {}, before |-> Hist0,
     calls |-> <<>>, sent |-> <<>>, warnings |-> <<>>, frames |-> <<>>]

\* The failed calls: the operation, the order number, and whether the venue
\* rejected the order (for another reason than its filling mode).
FailedCalls(calls) ==
    {<<calls[i].op, calls[i].order, calls[i].why = "rejected">> :
        i \in {j \in 1..Len(calls) : ~calls[j].ok}}

CallsOf(calls, op, x) ==
    Cardinality({i \in 1..Len(calls) : calls[i].op = op /\ calls[i].order = x})

UnmappedWarnings(warnings, s) ==
    Cardinality({i \in 1..Len(warnings) :
                    warnings[i].kind = "unmapped" /\ warnings[i].symbol = s})

WarnedSymbols(warnings) ==
    {warnings[i].symbol : i \in {j \in 1..Len(warnings) : warnings[j].kind = "unmapped"}}

UnmappedAfter(counts, warnings) ==
    [s \in DOMAIN counts \cup WarnedSymbols(warnings) |->
        (IF s \in DOMAIN counts THEN counts[s] ELSE 0) + UnmappedWarnings(warnings, s)]

HistAfter(before, prev, new_snap, calls, warnings) ==
    [init |-> before.init, fetched |-> TRUE, shutdown |-> before.shutdown,
     unmapped |-> UnmappedAfter(before.unmapped, warnings),
     failed |-> FailedCalls(calls),
     quiet |-> new_snap = prev /\ FailedCalls(calls) = {},
     fresh |-> IF FailedCalls(calls) # {} THEN {}
               ELSE {[order |-> x, opens |-> CallsOf(calls, "open", x),
                      closes |-> CallsOf(calls, "close", x)] :
                        x \in DOMAIN new_snap \ DOMAIN prev}]

Init0(cfg) ==
    /\ config = cfg
    /\ pc = "init"
    /\ running = TRUE
    /\ last_sirix_equity = None
    /\ preview_printed = FALSE
    /\ link_map = EmptyMap
    /\ master_open_snapshot = EmptyMap
    /\ symbol_filling_cache = EmptyMap
    /\ warned_unmapped = {}
    /\ tick = NoTick
    /\ hist = Hist0

\* A variant that logs the failure of init_mt5 and enters the loop all the same.
InitMT5_unchecked ==
    /\ pc = "init"
    /\ \E ok \in IF config.dry_run THEN {TRUE} ELSE BOOLEAN :
          /\ pc' = "loop"
          /\ hist' = [hist EXCEPT !.init = IF ok THEN "ok" ELSE "failed"]
    /\ UNCHANGED <<config, running, last_sirix_equity, preview_printed, link_map,
                   master_open_snapshot, symbol_filling_cache, warned_unmapped,
                   tick>>

\* init_mt5 and its test in poll_loop (lines 1050-1054).
InitMT5 ==
    /\ pc = "init"
    /\ \E ok \in IF config.dry_run THEN {TRUE} ELSE BOOLEAN :
          /\ pc' = IF ok THEN "loop" ELSE "exited"
          /\ hist' = [hist EXCEPT !.init = IF ok THEN "ok" ELSE "failed"]
    /\ UNCHANGED <<config, running, last_sirix_equity, preview_printed, link_map,
                   master_open_snapshot, symbol_filling_cache, warned_unmapped,
                   tick>>

\* A variant that takes a failed fetch for an empty snapshot.
PollFetchFailed_forgets ==
    /\ pc = "fetch"
    /\ pc' = "sleep"
    /\ tick' = [NoTick EXCEPT !.kind = "fetch_failed",
                              !.prev = master_open_snapshot,
                              !.links = link_map,
                              !.equity = last_sirix_equity,
                              !.cache = symbol_filling_cache,
                              !.warned = warned_unmapped,
                              !.before = hist]
    /\ hist' = [hist EXCEPT !.quiet = FALSE, !.fetched = TRUE]
    /\ master_open_snapshot' = EmptyMap
    /\ UNCHANGED <<config, running, last_sirix_equity, preview_printed, link_map,
                   symbol_filling_cache, warned_unmapped>>

\* An iteration whose fetch fails (lines 1059-1069).
PollFetchFailed ==
    /\ pc = "fetch"
    /\ pc' = "sleep"
    /\ tick' = [NoTick EXCEPT !.kind = "fetch_failed",
                              !.prev = master_open_snapshot,
                              !.links = link_map,
                              !.equity = last_sirix_equity,
                              !.cache = symbol_filling_cache,
                              !.warned = warned_unmapped,
                              !.before = hist]
    /\ hist' = [hist EXCEPT !.quiet = FALSE, !.fetched = TRUE]
    /\ UNCHANGED <<config, running, last_sirix_equity, preview_printed, link_map,
                   master_open_snapshot, symbol_filling_cache, warned_unmapped>>

\* print_preview_table resolves every symbol of the first snapshot (line 890).
RECURSIVE preview(_, _, _, _)
preview(st, cfg, snap, todo) ==
    IF todo = {} THEN st
    ELSE LET x == MinOf(todo)
         IN  preview(map_symbol(st, cfg, snap[x].symbol).st, cfg, snap, todo \ {x})

\* The warnings build_master_snapshot logs (lines 840-841): one for each item
\* of the payload whose Side is neither the buy nor the sell value.
RECURSIVE invalid_side_warnings(_, _)
invalid_side_warnings(payload, todo) ==
    IF todo = {} THEN <<>>
    ELSE LET x == MinOf(todo)
         IN  (IF payload[x].Side \in {sirix_buy_value, sirix_sell_value}
              THEN <<>>
              ELSE <<[kind |-> "side", order |-> x, side |-> payload[x].Side]>>)
             \o invalid_side_warnings(payload, todo \ {x})

StartState ==
    [links |-> link_map, cache |-> symbol_filling_cache,
     warned |-> warned_unmapped, calls |-> <<>>, sent |-> <<>>,
     warnings |-> <<>>, frames |-> <<>>]

\* The state in which process_master_changes starts, build_master_snapshot
\* having logged its warnings.
SnapshotState(payload) ==
    [StartState EXCEPT !.warnings = invalid_side_warnings(payload, DOMAIN payload)]

\* The end of an iteration whose fetch succeeded: r is what
\* process_master_changes returned.
Reconciled(master_eq, payload, new_snap, r) ==
    /\ last_sirix_equity' = master_eq
    /\ preview_printed' = TRUE
    /\ link_map' = r.st.links
    /\ symbol_filling_cache' = r.st.cache
    /\ warned_unmapped' = r.st.warned
    /\ master_open_snapshot' = r.master_open_snapshot
    /\ tick' = [kind |-> "reconciled", payload |-> payload,
                prev |-> master_open_snapshot,
                snap |-> new_snap, links |-> link_map,
                equity |-> last_sirix_equity,
                cache |-> symbol_filling_cache, warned |-> warned_unmapped,
                before |-> hist,
                calls |-> r.st.calls, sent |-> r.st.sent,
                warnings |-> r.st.warnings, frames |-> r.st.frames]
    /\ hist' = HistAfter(hist, master_open_snapshot, new_snap, r.st.calls,
                          r.st.warnings)

\* update_master_equity, build_master_snapshot, the preview of the first
\* snapshot, and process_master_changes (lines 1071-1080).
Reconcile(eq, payload, new_snap, env) ==
    Reconciled(update_master_equity(last_sirix_equity, eq), payload, new_snap,
               process_master_changes(
                   IF preview_printed THEN SnapshotState(payload)
                   ELSE preview(SnapshotState(payload), config, new_snap,
                                DOMAIN new_snap),
                   config, master_open_snapshot, new_snap,
                   update_master_equity(last_sirix_equity, eq), env))

\* An iteration whose fetch succeeds (lines 1059-1082).
PollReconcile(equities, payloads, V) ==
    /\ pc = "fetch"
    /\ \E eq \in equities, payload \in payloads :
         \E env \in Envs(master_open_snapshot, build_master_snapshot(payload),
                         V, Orders) :
            Reconcile(eq, payload, build_master_snapshot(payload), env)
    /\ pc' = "sleep"
    /\ UNCHANGED <<config, running>>

\* The loop test succeeds (line 1058): the iteration starts, and the flag is
\* not read again before the next test.
LoopEnter ==
    /\ pc = "loop" /\ running
    /\ pc' = "fetch"
    /\ UNCHANGED <<config, running, last_sirix_equity, preview_printed, link_map,
                   master_open_snapshot, symbol_filling_cache, warned_unmapped,
                   tick, hist>>

\* time.sleep(poll_interval_sec), back to the loop test.
Sleep ==
    /\ pc = "sleep"
    /\ pc' = "loop"
    /\ tick' = NoTick
    /\ UNCHANGED <<config, running, last_sirix_equity, preview_printed, link_map,
                   master_open_snapshot, symbol_filling_cache, warned_unmapped,
                   hist>>

\* A variant in which the signal ends the loop where it stands, as the
\* default handler of SIGINT does by raising in the main thread.
Signal_interrupting ==
    /\ running /\ pc # "exited"
    /\ running' = FALSE
    /\ pc' = IF pc = "init" THEN pc ELSE "exited"
    /\ UNCHANGED <<config, last_sirix_equity, preview_printed, link_map,
                   master_open_snapshot, symbol_filling_cache, warned_unmapped,
                   tick, hist>>

\* _signal_handler: SIGINT or SIGTERM at any point of the loop.
Signal ==
    /\ running /\ pc # "exited"
    /\ running' = FALSE
    /\ UNCHANGED <<config, pc, last_sirix_equity, preview_printed, link_map,
                   master_open_snapshot, symbol_filling_cache, warned_unmapped,
                   tick, hist>>

\* The loop test fails: shutdown_mt5 and return (lines 1058, 1084-1085).
LoopExit ==
    /\ pc = "loop" /\ ~running
    /\ pc' = "exited"
    /\ hist' = [hist EXCEPT !.shutdown = TRUE]
    /\ UNCHANGED <<config, running, last_sirix_equity, preview_printed, link_map,
                   master_open_snapshot, symbol_filling_cache, warned_unmapped,
                   tick>>

\* The source's configuration, and the same with the multiplier sizing rule.
MainConfigs == {SourceConfig, [SourceConfig EXCEPT !.volume_mode = "multiplier"]}

Init == \E cfg \in MainConfigs : Init0(cfg)

Poll == PollReconcile(Equities, OpenPositionsPayloads, VenueBehaviours)

Next ==
    \/ InitMT5
    \/ LoopEnter
    \/ PollFetchFailed
    \/ Poll
    \/ Sleep
    \/ Signal
    \/ LoopExit

Spec == Init /\ [][Next]_vars

\* The dry run of the same program.
DryConfigs == {[cfg EXCEPT !.dry_run = TRUE] : cfg \in MainConfigs}

InitDry == \E cfg \in DryConfigs : Init0(cfg)

SpecDry == InitDry /\ [][Next]_vars

\* The loop takes its next iteration and returns from its sleep for as long
\* as it runs.
SpecLive ==
    /\ Init /\ [][Next]_vars
    /\ WF_vars(InitMT5)
    /\ WF_vars(LoopEnter)
    /\ WF_vars(PollFetchFailed \/ Poll)
    /\ WF_vars(Sleep)

\* A venue that rejects fill-or-kill as unsupported and accepts the other
\* modes, for a symbol whose info reports no filling mode; with it, the same
\* venue without the position, and without a quote.
IocOnly ==
    [Happy EXCEPT !.ret = [m \in FillModeSet |->
                              IF m = ORDER_FILLING_FOK
                              THEN TRADE_RETCODE_INVALID_FILL
                              ELSE TRADE_RETCODE_DONE]]

FillVenues == {IocOnly, [IocOnly EXCEPT !.pos = None], [IocOnly EXCEPT !.tick = None]}

PollFill == PollReconcile(Equities, OpenPositionsPayloads, FillVenues)

NextFill ==
    \/ InitMT5
    \/ LoopEnter
    \/ PollFetchFailed
    \/ PollFill
    \/ Sleep
    \/ Signal
    \/ LoopExit

SpecFill == Init /\ [][NextFill]_vars


\* Venues that net the fills of a resize: after the order the position holds
\* 0.75 lot, or is gone; with them the venue that leaves 0.5 lot.
Netting == [Happy EXCEPT !.pos_after = Some(750)]

Vanishing == [Happy EXCEPT !.pos_after = None]

ResizeVenues == {Happy, Netting, Vanishing}

PollResize == PollReconcile(Equities, OpenPositionsPayloads, ResizeVenues)

NextResize ==
    \/ InitMT5
    \/ LoopEnter
    \/ PollFetchFailed
    \/ PollResize
    \/ Sleep
    \/ Signal
    \/ LoopExit

SpecResize == Init /\ [][NextResize]_vars


\* A master position whose stop loss moves between polls by less than the
\* tolerance (900 to 895), by exactly the tolerance (900 to 910), by more
\* (895 to 910), or is taken away; every level is valid for a buy at the
\* quote of the venue.
StopLevels == {None, Some(895), Some(900), Some(910)}

StopItems ==
    {[Symbol |-> "EURUSD", Side |-> sirix_buy_value, Amount |-> 100000,
      StopLoss |-> sl, TakeProfit |-> Some(1100)] : sl \in StopLevels}

StopPayloads == {EmptyMap} \cup {[k \in {1} |-> item] : item \in StopItems}

PollStops == PollReconcile(Equities, StopPayloads, {Happy, Rejecting})

NextStops ==
    \/ InitMT5
    \/ LoopEnter
    \/ PollFetchFailed
    \/ PollStops
    \/ Sleep
    \/ Signal
    \/ LoopExit

SpecStops == Init /\ [][NextStops]_vars


\* convert_master_amount_to_lots on its own: every sizing rule and every
\* reading of the master amount, master symbols with and without a contract
\* size and a translation, amounts from a sell-side negative to 9 lots of FX.
ConvertConfigs ==
    {[SourceConfig EXCEPT !.volume_mode = vm, !.master_amount_mode = am] :
        vm \in {"1to1", "fixed", "multiplier", "equity_ratio"},
        am \in {"units", "lots", "contracts"}}

ConvertSymbols == {"EURUSD", "XAUUSD", "NQ100.", "GER40.", "BTCUSD"}

ConvertAmounts == {-100000, 0, 1, 100000, 900000}

InitConvert == \E cfg \in ConvertConfigs : Init0(cfg)

\* One call, as open_follower_for_master and adjust_follower_for_master make
\* it (lines 913, 965-966): the follower symbol is the translated one.  No
\* equity is known yet, on either side.
Convert ==
    /\ \E s \in ConvertSymbols, a \in ConvertAmounts :
          tick' = [kind |-> "convert", master_symbol |-> s, master_amount |-> a,
                   follower_symbol |-> map_symbol(StartState, config, s).symbol,
                   lots |-> convert_master_amount_to_lots(
                                config, s, a,
                                map_symbol(StartState, config, s).symbol,
                                last_sirix_equity, None)]
    /\ UNCHANGED <<config, pc, running, last_sirix_equity, preview_printed,
                   link_map, master_open_snapshot, symbol_filling_cache,
                   warned_unmapped, hist>>

NextConvert == Convert

SpecConvert == InitConvert /\ [][NextConvert]_vars


\* A master position whose Side is the buy value, the sell value, or a code
\* that is neither.
SideCodes == {sirix_buy_value, sirix_sell_value, 2, -1}

SideItems ==
    {[Symbol |-> "EURUSD", Side |-> s, Amount |-> 100000,
      StopLoss |-> None, TakeProfit |-> None] : s \in SideCodes}

SidePayloads == {EmptyMap} \cup {[k \in {1} |-> item] : item \in SideItems}

PollSide == PollReconcile(Equities, SidePayloads, {Happy, Rejecting, NotFound})

NextSide ==
    \/ InitMT5
    \/ LoopEnter
    \/ PollFetchFailed
    \/ PollSide
    \/ Sleep
    \/ Signal
    \/ LoopExit

SpecSide == Init /\ [][NextSide]_vars


\* Master positions on a symbol with a translation (NQ100.) and on symbols
\* without one (EURUSD, BTCUSD); the amount changes between polls, so a
\* symbol is resolved again and again.
SymbolItems ==
    {[Symbol |-> s, Side |-> sirix_buy_value, Amount |-> a,
      StopLoss |-> None, TakeProfit |-> None] :
        s \in {"EURUSD", "BTCUSD", "NQ100."}, a \in Amounts}

SymbolPayloads == {EmptyMap} \cup {[k \in {1} |-> item] : item \in SymbolItems}

PollSymbol == PollReconcile(Equities, SymbolPayloads, {Happy, Rejecting})

NextSymbol ==
    \/ InitMT5
    \/ LoopEnter
    \/ PollFetchFailed
    \/ PollSymbol
    \/ Sleep
    \/ Signal
    \/ LoopExit

SpecSymbol == Init /\ [][NextSymbol]_vars


\* A master buy whose stop loss is absent, below the venue's ask (900), or
\* above it (1020), where the stop validator drops it; the take profit is
\* valid throughout.
AppliedItems ==
    {[Symbol |-> "EURUSD", Side |-> sirix_buy_value, Amount |-> 100000,
      StopLoss |-> sl, TakeProfit |-> Some(1100)] :
        sl \in {None, Some(900), Some(1020)}}

AppliedPayloads == {EmptyMap} \cup {[k \in {1} |-> item] : item \in AppliedItems}

PollApplied == PollReconcile(Equities, AppliedPayloads, {Happy, Rejecting})

NextApplied ==
    \/ InitMT5
    \/ LoopEnter
    \/ PollFetchFailed
    \/ PollApplied
    \/ Sleep
    \/ Signal
    \/ LoopExit

SpecApplied == Init /\ [][NextApplied]_vars

\* The 1:1 and the multiplier sizing rules, and a master position whose
\* amount is 1.0 lot of FX or nothing at all: an amount of 0 converts to 0
\* lots under either rule.
ZeroConfigs ==
    {[SourceConfig EXCEPT !.volume_mode = vm] : vm \in {"1to1", "multiplier"}}

InitZero == \E cfg \in ZeroConfigs : Init0(cfg)

ZeroItems ==
    {[Symbol |-> "EURUSD", Side |-> sirix_buy_value, Amount |-> a,
      StopLoss |-> None, TakeProfit |-> None] : a \in {0, 100000}}

ZeroPayloads == {EmptyMap} \cup {[k \in {1} |-> item] : item \in ZeroItems}

PollZero == PollReconcile(Equities, ZeroPayloads, {Happy, Rejecting})

NextZero ==
    \/ InitMT5
    \/ LoopEnter
    \/ PollFetchFailed
    \/ PollZero
    \/ Sleep
    \/ Signal
    \/ LoopExit

SpecZero == InitZero /\ [][NextZero]_vars

\* A venue whose live position holds 0.25 lot before an order, less than any
\* target, with the venue whose position holds 1.0 lot and the one that
\* rejects the order; and a master buy whose amount changes between polls.
Small == [Happy EXCEPT !.pos = Some(250)]

DeltaVenues == {Happy, Small, Rejecting}

DeltaItems ==
    {[Symbol |-> "EURUSD", Side |-> sirix_buy_value, Amount |-> a,
      StopLoss |-> None, TakeProfit |-> None] : a \in Amounts}

DeltaPayloads == {EmptyMap} \cup {[k \in {1} |-> item] : item \in DeltaItems}

PollDelta == PollReconcile(Equities, DeltaPayloads, DeltaVenues)

NextDelta ==
    \/ InitMT5
    \/ LoopEnter
    \/ PollFetchFailed
    \/ PollDelta
    \/ Sleep
    \/ Signal
    \/ LoopExit

SpecDelta == Init /\ [][NextDelta]_vars

\* Venues that give each filling mode its own answer (accepted, rejected as
\* an unsupported filling mode, or rejected for another reason) and whose
\* symbol info reports no filling mode, or immediate-or-cancel.
FillAnswers ==
    {TRADE_RETCODE_DONE, TRADE_RETCODE_INVALID_FILL, TRADE_RETCODE_INVALID_STOPS}

NegotiationVenues ==
    {[Happy EXCEPT !.ret = r, !.info = Some([Info0 EXCEPT !.filling_mode = fm])] :
        r \in [FillModeSet -> FillAnswers], fm \in {None, Some(ORDER_FILLING_IOC)}}

PollNegotiate == PollReconcile(Equities, DeltaPayloads, NegotiationVenues)

NextNegotiate ==
    \/ InitMT5
    \/ LoopEnter
    \/ PollFetchFailed
    \/ PollNegotiate
    \/ Sleep
    \/ Signal
    \/ LoopExit

SpecNegotiate == Init /\ [][NextNegotiate]_vars

\* validate_stops_for_mt5 on its own, validation on, for a symbol whose
\* prices have 7 or 4 digits and whose minimum stop distance is none or
\* 0.00005: a buy or a sell at 0.0010000, and levels on both sides of the
\* entry price, on and off the 4-digit grid, within and beyond the distance.
ValidateLevels == {None} \cup {Some(l) : l \in {9000, 9400, 9600, 10000, 10400, 11000}}

ValidateInfos ==
    {[Info0 EXCEPT !.digits = d, !.stop_level = sl] : d \in {7, 4}, sl \in {0, 500}}

ValidateEntry == 10000

Validate ==
    /\ \E dir01 \in {0, 1}, sl \in ValidateLevels, tp \in ValidateLevels,
          info \in ValidateInfos :
          tick' = [kind |-> "validate", dir01 |-> dir01, sl |-> sl, tp |-> tp,
                   entry_price |-> ValidateEntry, info |-> info,
                   out |-> validate_stops_for_mt5(config, dir01, sl, tp,
                                                  ValidateEntry, Some(info))]
    /\ UNCHANGED <<config, pc, running, last_sirix_equity, preview_printed,
                   link_map, master_open_snapshot, symbol_filling_cache,
                   warned_unmapped, hist>>

NextValidate == Validate

SpecValidate == Init /\ [][NextValidate]_vars

\* convert_master_amount_to_lots under the equity-ratio rule: either equity
\* unknown, negative, zero, or positive.
RatioConfigs ==
    {[SourceConfig EXCEPT !.volume_mode = "equity_ratio", !.master_amount_mode = am] :
        am \in {"units", "lots", "contracts"}}

InitRatio == \E cfg \in RatioConfigs : Init0(cfg)

RatioEquities == {None, Some(-2), Some(0), Some(2), Some(5)}

RatioAmounts == {0, 3, 100000, 300000}

\* One call: master_eq is last_sirix_equity, feq what account_info() reports.
ConvertRatio ==
    /\ \E s \in {"EURUSD", "XAUUSD"}, a \in RatioAmounts,
          master_eq \in RatioEquities, feq \in RatioEquities :
          tick' = [kind |-> "ratio", master_symbol |-> s, master_amount |-> a,
                   master_eq |-> master_eq, follower_equity |-> feq,
                   ratio |-> calc_equity_ratio(config, master_eq, feq),
                   base_lots |-> convert_master_amount_to_lots(
                                     [config EXCEPT !.volume_mode = "1to1"],
                                     s, a, s, master_eq, feq),
                   lots |-> convert_master_amount_to_lots(config, s, a, s,
                                                          master_eq, feq)]
    /\ UNCHANGED <<config, pc, running, last_sirix_equity, preview_printed,
                   link_map, master_open_snapshot, symbol_filling_cache,
                   warned_unmapped, hist>>

NextRatio == ConvertRatio

SpecRatio == InitRatio /\ [][NextRatio]_vars

\* normalize_lot on its own in a live run with the symbol's metadata: a
\* volume step of 0.01 or 0.1 lot, a minimum of 0.01 or 0.1, a maximum of 100
\* or 0.5, each of which the metadata may also leave at 0 (the defaults then
\* apply); requested sizes from 0 to 250 lots, on and off the step.
NormalizeInfos ==
    {[Info0 EXCEPT !.volume_step = s, !.volume_min = lo, !.volume_max = hi] :
        s \in {0, 10, 100}, lo \in {0, 10, 100}, hi \in {0, 500, 100000}}

NormalizeLots == {0, 5, 10, 14, 100, 105, 499, 250000}

Normalize ==
    /\ \E lots \in NormalizeLots, info \in NormalizeInfos :
          tick' = [kind |-> "normalize", lots |-> lots, info |-> info,
                   out |-> normalize_lot(config, lots, Some(info))]
    /\ UNCHANGED <<config, pc, running, last_sirix_equity, preview_printed,
                   link_map, master_open_snapshot, symbol_filling_cache,
                   warned_unmapped, hist>>

NextNormalize == Normalize

SpecNormalize == Init /\ [][NextNormalize]_vars

\* The same program with auto-close-on-master-close configured off.
KeepConfigs == {[cfg EXCEPT !.close_on_master_close = FALSE] : cfg \in MainConfigs}

InitKeep == \E cfg \in KeepConfigs : Init0(cfg)

PollKeep == PollReconcile(Equities, OpenPositionsPayloads, {Happy, Rejecting})

NextKeep ==
    \/ InitMT5
    \/ LoopEnter
    \/ PollFetchFailed
    \/ PollKeep
    \/ Sleep
    \/ Signal
    \/ LoopExit

SpecKeep == InitKeep /\ [][NextKeep]_vars

\* The venue at its best: every query is answered, every order is accepted in
\* the first filling mode, and the position is found with a positive volume
\* before and after every order (1.0 then 0.5 lot, 0.25 then 0.5 lot, or the
\* minimum lot throughout).
HappyVenues == {Happy, Small, [Happy EXCEPT !.pos = Some(10), !.pos_after = Some(10)]}

\* A master position of nothing at all, of 0.01 lot or of 1.0 lot of FX.
HappyItems ==
    {[Symbol |-> "EURUSD", Side |-> sirix_buy_value, Amount |-> a,
      StopLoss |-> None, TakeProfit |-> None] : a \in {0, 1000, 100000}}

InitHappy == \E cfg \in MainConfigs \cup ZeroConfigs : Init0(cfg)

\* Every fetch of the master's open positions succeeds.
PollHappy == PollReconcile({Some(5000)}, {EmptyMap} \cup {[k \in {1} |-> item] : item \in HappyItems}, HappyVenues)

NextHappy ==
    \/ InitMT5
    \/ LoopEnter
    \/ PollHappy
    \/ Sleep
    \/ Signal
    \/ LoopExit

SpecHappy == InitHappy /\ [][NextHappy]_vars

\* The program with stop validation configured off, and with stop copying
\* configured off.
FlagConfigs ==
    {[SourceConfig EXCEPT !.validate_stops = FALSE], [SourceConfig EXCEPT !.copy_stops = FALSE]}

InitFlags == \E cfg \in FlagConfigs : Init0(cfg)

\* A master position whose stop loss moves in steps below the tolerance (900
\* to 894 to 888), by more than the tolerance at once (900 to 888), or is
\* taken away.
DriftItems ==
    {[Symbol |-> "EURUSD", Side |-> sirix_buy_value, Amount |-> 100000,
      StopLoss |-> sl, TakeProfit |-> Some(1100)] :
          sl \in {None, Some(900), Some(894), Some(888)}}

\* The venue answers every query and accepts every order and every stop
\* modification.
PollFlags == PollReconcile(Equities, {EmptyMap} \cup {[k \in {1} |-> item] : item \in DriftItems}, {Happy})

NextFlags ==
    \/ InitMT5
    \/ LoopEnter
    \/ PollFetchFailed
    \/ PollFlags
    \/ Sleep
    \/ Signal
    \/ LoopExit

SpecFlags == InitFlags /\ [][NextFlags]_vars

\* The loop of SpecStops with its scheduling: init_mt5 returns, the loop test
\* is taken, an iteration that has started ends (the fetch has a timeout), the
\* sleep ends, and the loop returns once its test fails.
SpecCancel ==
    /\ Init /\ [][NextStops]_vars
    /\ WF_vars(InitMT5)
    /\ WF_vars(LoopEnter)
    /\ WF_vars(PollFetchFailed \/ PollStops)
    /\ WF_vars(Sleep)
    /\ WF_vars(LoopExit)

\* ------------------------------------------------------------------ claims

Reconciling == tick.kind = "reconciled"

CallsFor(x) == {i \in 1..Len(tick.calls) : tick.calls[i].order = x}

SentFor(x) == {i \in 1..Len(tick.sent) : tick.sent[i].order = x}

ClosedByMaster == DOMAIN tick.prev \ DOMAIN tick.snap

\* C1: if from some iteration on every fetch succeeds with the same snapshot
\* and no follower operation fails, then eventually the order numbers of the
\* link table are those of the snapshot, and stay so.
C1_EventualConsistency ==
    <>[](running /\ hist.quiet)
        => <>[](DOMAIN link_map = DOMAIN master_open_snapshot)

\* C2: an order whose open failed in the last reconcile and that the new
\* snapshot still holds gets an open call in this reconcile, whatever changed;
\* so does an order of both snapshots that has no link.
C2_FailedOpenRetried ==
    Reconciling =>
        \A x \in DOMAIN tick.snap :
            (\/ \E f \in tick.before.failed : f[1] = "open" /\ f[2] = x
             \/ x \in DOMAIN tick.prev /\ x \notin DOMAIN tick.links)
                => CallsOf(tick.calls, "open", x) >= 1

\* C3: an order that a snapshot lacks, the next has and the third lacks
\* again, with no operation failing and auto-close on, gets exactly one open
\* call, in the second reconcile, and one close call, in the third, and has
\* no link afterwards.
C3_RoundTrip ==
    (Reconciling /\ config.close_on_master_close /\ FailedCalls(tick.calls) = {}) =>
        \A f \in tick.before.fresh :
            f.order \in ClosedByMaster
                => /\ f.opens = 1 /\ CallsOf(tick.calls, "open", f.order) = 0
                   /\ f.closes = 0 /\ CallsOf(tick.calls, "close", f.order) = 1
                   /\ f.order \notin DOMAIN link_map

C3_Witness ==
    /\ Reconciling /\ config.close_on_master_close /\ FailedCalls(tick.calls) = {}
    /\ \E f \in tick.before.fresh :
          /\ f.order \in ClosedByMaster
          /\ f.order \in DOMAIN tick.links
          /\ CallsOf(tick.calls, "close", f.order) = 1

\* C4: reconciling a snapshot equal to the previous one makes no follower
\* operation and no venue call, and leaves the link table as it was.
C4_IdempotentRediff ==
    (Reconciling /\ tick.snap = tick.prev) =>
        /\ tick.calls = <<>>
        /\ tick.sent = <<>>
        /\ link_map = tick.links

C4_Witness ==
    /\ Reconciling /\ tick.snap = tick.prev
    /\ \E x \in DOMAIN tick.snap :
          /\ ~IsNone(tick.snap[x].stop_loss)
          /\ x \in DOMAIN link_map
    /\ tick.calls = <<>>

\* C5: a close, an adjust or a stop update that the venue rejected in the last
\* reconcile is called again in this one when the snapshot has not changed.
C5_FailedOperationRetried ==
    (Reconciling /\ tick.snap = tick.prev) =>
        \A f \in tick.before.failed :
            (f[1] \in {"close", "adjust", "stops"} /\ f[3])
                => CallsOf(tick.calls, f[1], f[2]) >= 1

\* C6: when the master closes an order that has a link and the venue has no
\* position for the link's ticket, the link is removed in that reconcile.
C6_PositionNotFoundOnClose ==
    Reconciling =>
        \A x \in ClosedByMaster \cap DOMAIN tick.links :
            (\E i \in SentFor(x) : /\ tick.sent[i].api = "positions_get"
                                   /\ ~tick.sent[i].found)
                => x \notin DOMAIN link_map

\* C7: with auto-close on, an order of the previous snapshot that the new one
\* lacks gets, if it has a link, exactly one close call and nothing else, and
\* its link is removed exactly when the close succeeded; without a link it
\* gets no call at all.
C7_CloseClassification ==
    (Reconciling /\ config.close_on_master_close) =>
        \A x \in ClosedByMaster :
            IF x \in DOMAIN tick.links
            THEN /\ CallsOf(tick.calls, "close", x) = 1
                 /\ Cardinality(CallsFor(x)) = 1
                 /\ x \notin DOMAIN link_map <=> \A i \in CallsFor(x) : tick.calls[i].ok
            ELSE /\ CallsFor(x) = {}
                 /\ SentFor(x) = {}
                 /\ x \notin DOMAIN link_map

C7_Witness ==
    /\ Reconciling /\ config.close_on_master_close
    /\ \E x \in ClosedByMaster \cap DOMAIN tick.links :
          /\ x \in DOMAIN link_map
          /\ \E i \in CallsFor(x) : tick.calls[i].op = "close" /\ ~tick.calls[i].ok

\* C8: after a reconcile the previous snapshot is the snapshot that was
\* reconciled, whether its operations succeeded or failed.
C8_SnapshotReplaced == Reconciling => master_open_snapshot = tick.snap

C8_Witness ==
    /\ Reconciling /\ tick.snap # tick.prev
    /\ \E i \in 1..Len(tick.calls) : ~tick.calls[i].ok
    /\ master_open_snapshot = tick.snap

\* C9: an iteration whose fetch fails reconciles nothing: no follower
\* operation, no venue call, and the previous snapshot, the link table and the
\* last known master equity as they were; the loop sleeps and goes on.
C9_FetchFailureNoOp ==
    tick.kind = "fetch_failed" =>
        /\ tick.calls = <<>>
        /\ tick.sent = <<>>
        /\ master_open_snapshot = tick.prev
        /\ link_map = tick.links
        /\ last_sirix_equity = tick.equity
        /\ pc = "sleep"

C9_Witness ==
    /\ tick.kind = "fetch_failed" /\ running
    /\ master_open_snapshot # EmptyMap
    /\ link_map # EmptyMap
    /\ ~IsNone(last_sirix_equity)

\* C10: in a dry run no order and no position query reaches the venue, while
\* every decision is taken and the link table follows: a link with the dry
\* ticket for every order of the snapshot, sized from its amount.
C10_DryRunSendsNothing ==
    (config.dry_run /\ Reconciling) =>
        /\ tick.sent = <<>>
        /\ DOMAIN link_map = DOMAIN tick.snap
        /\ \A x \in DOMAIN tick.snap \ DOMAIN tick.prev :
              CallsOf(tick.calls, "open", x) = 1
        /\ \A x \in DOMAIN link_map :
              /\ link_map[x].follower_ticket = DRY_TICKET
              /\ link_map[x].follower_volume =
                    convert_master_amount_to_lots(
                        config, tick.snap[x].symbol, tick.snap[x].amount,
                        link_map[x].follower_symbol, last_sirix_equity, None)

C10_Witness ==
    /\ config.dry_run /\ Reconciling
    /\ ClosedByMaster # {} /\ tick.links # EmptyMap /\ link_map = EmptyMap

\* C11: the link table holds at most one link per master order number, and
\* the link stored under key k has master_order_number k.
C11_OneLinkPerOrder ==
    /\ \A k \in DOMAIN link_map : link_map[k].master_order_number = k
    /\ \A k1, k2 \in DOMAIN link_map :
          link_map[k1].master_order_number = link_map[k2].master_order_number
              => k1 = k2

\* An order that already had a link is opened again, and has one link.
C11_Witness ==
    /\ Reconciling
    /\ \E x \in DOMAIN tick.links \cap DOMAIN link_map :
          /\ \E i \in CallsFor(x) : tick.calls[i].op = "open" /\ tick.calls[i].ok
          /\ link_map[x].master_order_number = x

\* The order_send attempts of the last iteration for a symbol, as positions
\* of tick.sent, and those the venue rejected as an unsupported filling mode.
SendsOf(sym) ==
    {i \in 1..Len(tick.sent) :
        tick.sent[i].api = "order_send" /\ tick.sent[i].symbol = sym}

RejectedFills(sym) ==
    {i \in SendsOf(sym) : tick.sent[i].retcode = TRADE_RETCODE_INVALID_FILL}

FirstOf(S) == CHOOSE i \in S : \A j \in S : i <= j

\* C12: against a venue that rejects fill-or-kill as unsupported and accepts
\* immediate-or-cancel, the first order for a symbol makes one rejected
\* attempt with fill-or-kill and then one accepted attempt with
\* immediate-or-cancel, and every later order for the symbol makes no
\* rejected attempt.
C12_FillModeMemoised ==
    Reconciling =>
        \A sym \in {tick.sent[i].symbol : i \in {j \in 1..Len(tick.sent) : tick.sent[j].api = "order_send"}} :
            IF sym \in DOMAIN tick.cache
            THEN RejectedFills(sym) = {}
            ELSE /\ RejectedFills(sym) = {FirstOf(SendsOf(sym))}
                 /\ tick.sent[FirstOf(SendsOf(sym))].type_filling = ORDER_FILLING_FOK
                 /\ FirstOf(SendsOf(sym)) + 1 \in SendsOf(sym)
                 /\ tick.sent[FirstOf(SendsOf(sym)) + 1].type_filling = ORDER_FILLING_IOC
                 /\ IsDone(tick.sent[FirstOf(SendsOf(sym)) + 1].retcode)
                 /\ tick.sent[FirstOf(SendsOf(sym)) + 1].order
                       = tick.sent[FirstOf(SendsOf(sym))].order

\* A later order for the symbol: sent once, with immediate-or-cancel.
C12_Witness ==
    /\ Reconciling
    /\ "EURUSD" \in DOMAIN tick.cache
    /\ SendsOf("EURUSD") # {}
    /\ \A i \in SendsOf("EURUSD") :
          /\ tick.sent[i].type_filling = ORDER_FILLING_IOC
          /\ IsDone(tick.sent[i].retcode)


\* The order numbers linked before the iteration whose amount differs between
\* the previous snapshot and the new one.
Resized ==
    {x \in DOMAIN tick.links \cap DOMAIN tick.prev \cap DOMAIN tick.snap :
        tick.prev[x].amount # tick.snap[x].amount}

\* The volume the venue reported last for the position of order x in the
\* iteration (0 when it reported no position).
ReportedVolume(x) ==
    LET Q == {i \in SentFor(x) : tick.sent[i].api = "positions_get"}
        last == CHOOSE i \in Q : \A j \in Q : j <= i
    IN  IF IsNone(tick.sent[last].volume) THEN 0 ELSE Val(tick.sent[last].volume)

RecordedVolume(x) ==
    IF x \in DOMAIN link_map THEN link_map[x].follower_volume ELSE 0

AdjustDeals(x) ==
    {i \in CallsFor(x) :
        /\ tick.calls[i].op = "adjust"
        /\ \E k \in SentFor(x) : /\ tick.sent[k].api = "order_send"
                                 /\ tick.sent[k].action = "DEAL"
                                 /\ tick.sent[k].volume # 0}

Kept == DOMAIN tick.prev \cap DOMAIN tick.snap \cap DOMAIN link_map

\* The size of the change of a stop level when both are set, 0 when neither
\* is; a level that appears or disappears has size -1.
ChangeSize(old, new) ==
    IF IsNone(old) /\ IsNone(new) THEN 0
    ELSE IF IsNone(old) \/ IsNone(new) THEN -1
    ELSE Abs(Val(old) - Val(new))

Within(old, new) ==
    ChangeSize(old, new) >= 0 /\ ChangeSize(old, new) < stop_change_abs_tolerance

Beyond(old, new) ==
    ChangeSize(old, new) = -1 \/ ChangeSize(old, new) > stop_change_abs_tolerance

StopCalls(x) == {i \in CallsFor(x) : tick.calls[i].op = "stops"}

StopRequests(x) ==
    {k \in SentFor(x) : tick.sent[k].api = "order_send" /\ tick.sent[k].action = "SLTP"}

\* C14: for a linked master order present in two consecutive snapshots, a
\* change of the stop loss and of the take profit that is below the tolerance
\* makes no stop-update call in the iteration; a change of one of them above
\* the tolerance makes exactly one (stops are copied, the levels are valid);
\* and a stop-modification request goes to the venue only when its stop loss
\* or its take profit differs from the level the link last applied by more
\* than the tolerance.
C14_StopChangeTolerance ==
    Reconciling =>
        \A x \in Kept :
            /\ (/\ Within(tick.prev[x].stop_loss, tick.snap[x].stop_loss)
                /\ Within(tick.prev[x].take_profit, tick.snap[x].take_profit))
                  => StopCalls(x) = {}
            /\ (\/ Beyond(tick.prev[x].stop_loss, tick.snap[x].stop_loss)
                \/ Beyond(tick.prev[x].take_profit, tick.snap[x].take_profit))
                  => Cardinality(StopCalls(x)) = 1
            /\ x \in DOMAIN tick.links =>
                  \A k \in StopRequests(x) :
                      \/ Beyond(tick.links[x].sl, tick.sent[k].sl)
                      \/ Beyond(tick.links[x].tp, tick.sent[k].tp)


\* C15: under the fixed sizing rule convert_master_amount_to_lots returns the
\* configured constant lot size for every symbol and every master amount,
\* whether the amount is read as units, as lots or as contracts.
C15_FixedIgnoresSize ==
    (tick.kind = "convert" /\ config.volume_mode = "fixed") =>
        tick.lots = lot_rule_fixed_lots

\* 900000 units of a symbol with a contract size, which the 1:1 rule would
\* size at 9 lots, come out at the fixed 0.10 lot.
C15_Witness ==
    /\ tick.kind = "convert" /\ config.volume_mode = "fixed"
    /\ config.master_amount_mode = "units"
    /\ tick.master_symbol = "EURUSD" /\ tick.master_amount = 900000
    /\ convert_master_amount_to_lots([config EXCEPT !.volume_mode = "1to1"],
                                     "EURUSD", 900000, "EURUSD", None, None) = 9000
    /\ tick.lots = 100


\* The items of the iteration's payload whose Side is not a known code.
UnknownSides ==
    {x \in DOMAIN tick.payload :
        tick.payload[x].Side \notin {sirix_buy_value, sirix_sell_value}}

SideWarnings(x) ==
    {i \in 1..Len(tick.warnings) :
        tick.warnings[i].kind = "side" /\ tick.warnings[i].order = x}

\* The orders sent to open a position for order x.
OpenSends(x) ==
    {k \in SentFor(x) : /\ tick.sent[k].api = "order_send"
                        /\ tick.sent[k].action = "DEAL"
                        /\ IsNone(tick.sent[k].position)}

\* C16: an item of the payload whose Side is neither the buy nor the sell
\* value becomes a snapshot entry with the buy side, building the snapshot
\* logs exactly one warning for its order number (and none for an item with
\* a known Side), and the follower order that opens it is a buy, as is the
\* side the new link records.
C16_UnknownSideIsBuy ==
    Reconciling =>
        /\ DOMAIN tick.snap = DOMAIN tick.payload
        /\ \A x \in DOMAIN tick.payload :
              Cardinality(SideWarnings(x)) = IF x \in UnknownSides THEN 1 ELSE 0
        /\ \A x \in UnknownSides :
              /\ tick.snap[x].side = sirix_buy_value
              /\ \A k \in OpenSends(x) : tick.sent[k].type = "BUY"
              /\ (x \in DOMAIN link_map /\ x \notin DOMAIN tick.links)
                    => link_map[x].side = sirix_buy_value

\* An item with Side 2 is new in the snapshot, is warned about, and is opened
\* on the venue with an accepted buy order.
C16_Witness ==
    /\ Reconciling
    /\ \E x \in UnknownSides :
          /\ tick.payload[x].Side = 2
          /\ x \notin DOMAIN tick.prev
          /\ SideWarnings(x) # {}
          /\ \E k \in OpenSends(x) : tick.sent[k].type = "BUY"
          /\ x \in DOMAIN link_map /\ link_map[x].side = sirix_buy_value


\* The follower symbol the configured translation table gives.
Translated(s) ==
    CASE s = "NQ100." -> "NAS100.i"
      [] s = "GER40." -> "GER40.i"
      [] OTHER -> s

\* C17: a master symbol of the translation table resolves to its follower
\* symbol and any other symbol to itself: every order sent for a position
\* opened in the iteration, and the link made for it, carry that symbol; and
\* since the start of the process no unmapped symbol has been warned about
\* more than once, and no mapped symbol at all.
C17_SymbolResolution ==
    /\ \A s \in DOMAIN hist.unmapped :
          hist.unmapped[s] <= 1 /\ s \notin {"NQ100.", "GER40."}
    /\ Reconciling =>
          \A x \in DOMAIN tick.snap \ DOMAIN tick.links :
              /\ \A k \in SentFor(x) :
                    tick.sent[k].api = "order_send" =>
                        tick.sent[k].symbol = Translated(tick.snap[x].symbol)
              /\ x \in DOMAIN link_map =>
                    link_map[x].follower_symbol = Translated(tick.snap[x].symbol)

\* An unmapped symbol that was warned about in an earlier iteration is
\* resolved again: the order that opens the position carries the symbol
\* itself, no warning is logged, and the count of its warnings stays at one.
C17_Witness ==
    /\ Reconciling
    /\ \E x \in DOMAIN tick.snap \ DOMAIN tick.links :
          /\ tick.snap[x].symbol = "BTCUSD"
          /\ "BTCUSD" \in tick.warned
          /\ \E k \in SentFor(x) : /\ tick.sent[k].api = "order_send"
                                   /\ tick.sent[k].symbol = "BTCUSD"
          /\ tick.warnings = <<>>
          /\ hist.unmapped["BTCUSD"] = 1


\* C18: when init_mt5 fails (the venue cannot be initialised, or the login
\* fails), the loop never starts: nothing has been fetched, reconciled or
\* sent to the venue, the copier's state is as it was built, and the process
\* has ended, no step of it being left to take.
C18_InitFailureIsFatal ==
    hist.init = "failed" =>
        /\ pc = "exited"
        /\ ~hist.fetched
        /\ tick = NoTick
        /\ link_map = EmptyMap /\ master_open_snapshot = EmptyMap
        /\ symbol_filling_cache = EmptyMap /\ warned_unmapped = {}
        /\ last_sirix_equity = None /\ ~preview_printed
        /\ ~ENABLED Next

\* init_mt5 has failed in a live run, which a stop signal had not reached.
C18_Witness ==
    hist.init = "failed" /\ ~config.dry_run /\ pc = "exited" /\ running


\* An iteration that has started is left only by its end, whatever the stop
\* flag has become meanwhile; when it reconciles, every order that is new in
\* its snapshot gets its open call, every linked order that left the
\* snapshot its close call, and its snapshot becomes the previous one.
IterationCompletes ==
    (pc = "fetch" /\ pc' # "fetch") =>
        /\ pc' = "sleep"
        /\ tick'.kind \in {"reconciled", "fetch_failed"}
        /\ tick'.kind = "reconciled" =>
              /\ master_open_snapshot' = tick'.snap
              /\ \A x \in DOMAIN tick'.snap \ DOMAIN tick'.prev :
                    CallsOf(tick'.calls, "open", x) = 1
              /\ \A x \in (DOMAIN tick'.prev \ DOMAIN tick'.snap) \cap DOMAIN tick'.links :
                    CallsOf(tick'.calls, "close", x) = 1

\* The flag is read at the loop test only: an iteration starts from the test
\* with the flag up, and the loop is left from the test with the flag down,
\* the venue connection being shut down.
FlagReadAtTop ==
    /\ (pc' = "fetch" /\ pc # "fetch") => (pc = "loop" /\ running)
    /\ (pc' = "exited" /\ pc # "exited" /\ hist.init = "ok") =>
          (pc = "loop" /\ ~running /\ hist'.shutdown)
    /\ (pc # "fetch" /\ ~running) => (tick'.kind = "none" \/ tick' = tick)

\* C19: the stop flag is read only at the loop test.  A signal that arrives
\* during an iteration does not interrupt it: the iteration runs to its end,
\* a reconcile processes every order and replaces the previous snapshot;
\* after the iteration no new fetch starts, the venue connection is shut
\* down, and the loop terminates.
C19_Cancellation ==
    /\ [][IterationCompletes /\ FlagReadAtTop]_vars
    /\ (~running) ~> (pc = "exited" /\ (hist.init = "ok" => hist.shutdown))

\* The signal has arrived after the loop test of an iteration that is not
\* the first: the flag is down, and the iteration, which has a linked order
\* to look after, is still to run.
C19_Witness ==
    /\ pc = "fetch" /\ ~running
    /\ hist.fetched /\ link_map # EmptyMap


\* The follower actions of the iteration in which a call reported failure.
FailedFrames ==
    {j \in 1..Len(tick.frames) :
        \E i \in (tick.frames[j].from + 1)..tick.frames[j].to : ~tick.calls[i].ok}

\* C20: when a follower action (open, close, adjust volume or stop update)
\* for a master order reports failure, the order's entry of the link table
\* after the action is what it was before it: present or absent as before,
\* with the same ticket, volume, side, stop loss and take profit.
C20_FailureLeavesLink ==
    Reconciling =>
        \A j \in FailedFrames : tick.frames[j].post = tick.frames[j].pre

\* The venue rejected a stop update of a linked order whose new levels
\* differ from the link's, and the link is as it was.
C20_Witness ==
    /\ Reconciling
    /\ \E j \in FailedFrames :
          /\ ~IsNone(tick.frames[j].pre)
          /\ tick.frames[j].post = tick.frames[j].pre
          /\ \E i \in (tick.frames[j].from + 1)..tick.frames[j].to :
                /\ tick.calls[i].op = "stops" /\ tick.calls[i].why = "rejected"
                /\ tick.snap[tick.calls[i].order].stop_loss # Val(tick.frames[j].pre).sl


\* The requests of the iteration that the venue accepted and that set the
\* stops of the position of order x: the order that opened it, for an order
\* without a link before the iteration, and the stop modifications.
AppliedSends(x) ==
    {k \in SentFor(x) :
        /\ tick.sent[k].api = "order_send"
        /\ IsDone(tick.sent[k].retcode)
        /\ \/ tick.sent[k].action = "SLTP"
           \/ k \in OpenSends(x) /\ x \notin DOMAIN tick.links}

LastOf(S) == CHOOSE i \in S : \A j \in S : j <= i

\* C21: the sl and tp a link records are the stop levels last sent to and
\* accepted by the venue for its position (absent when the request carried
\* none), also right after an open whose stops the validator dropped.
C21_RecordedStopsApplied ==
    Reconciling =>
        \A x \in DOMAIN link_map :
            AppliedSends(x) # {} =>
                /\ link_map[x].sl = tick.sent[LastOf(AppliedSends(x))].sl
                /\ link_map[x].tp = tick.sent[LastOf(AppliedSends(x))].tp


\* The lots the quantity converter gives for order x of the iteration's
\* snapshot, under a sizing rule that does not read the equities.
ConvertedLots(x) ==
    convert_master_amount_to_lots(config, tick.snap[x].symbol, tick.snap[x].amount,
                                  Translated(tick.snap[x].symbol), None, None)

OrderSends(x) == {k \in SentFor(x) : tick.sent[k].api = "order_send"}

\* C22: when the converter yields 0 lots for a master position that is new
\* in the snapshot and has no link, the open reports failure, no order goes
\* to the venue for it, and no link is made.
C22_OpenFailsOnZeroLots ==
    (Reconciling /\ config.volume_mode \in {"1to1", "multiplier"}) =>
        \A x \in (DOMAIN tick.snap \ DOMAIN tick.prev) \ DOMAIN tick.links :
            ConvertedLots(x) = 0 =>
                /\ \A i \in CallsFor(x) : tick.calls[i].op = "open" => ~tick.calls[i].ok
                /\ OrderSends(x) = {}
                /\ x \notin DOMAIN link_map


\* C23: when the amount of a linked master order changes to one that
\* converts to 0 lots or less, a successful adjust-volume has made a full
\* close of the follower position (one close call, every order sent for the
\* position being of the volume the venue reported for it), and the link is
\* removed.
C23_AdjustToZeroCloses ==
    (Reconciling /\ ~config.dry_run /\ config.volume_mode \in {"1to1", "multiplier"}) =>
        \A x \in Resized :
            (/\ ConvertedLots(x) <= 0
             /\ \E i \in CallsFor(x) : tick.calls[i].op = "adjust" /\ tick.calls[i].ok)
                => /\ CallsOf(tick.calls, "close", x) = 1
                   /\ \A k \in OrderSends(x) :
                         Some(tick.sent[k].volume) = tick.sent[FirstOf(SentFor(x))].volume
                   /\ x \notin DOMAIN link_map


\* The deals sent for order x in the iteration.
DealSends(x) == {k \in OrderSends(x) : tick.sent[k].action = "DEAL"}

\* The volume the venue reported for the position of order x at the first
\* query of the iteration.
LiveVolume(x) == Val(tick.sent[FirstOf(SentFor(x))].volume)

\* The target of the adjust-volume call for order x, normalized for a symbol
\* with the venue's default volume step and limits, minus the live volume.
Delta(x) ==
    normalize_lot(config, tick.calls[FirstOf(CallsFor(x))].target, Some(Info0))
        - LiveVolume(x)

\* C24: an adjust-volume call that finds the position takes the normalized
\* target minus the volume the venue reports (not the volume the link
\* records): above zero it sends one deal in the link's direction, of that
\* volume and bound to no position; below zero one deal in the opposite
\* direction, bound to the link's ticket, of the magnitude; at zero it sends
\* nothing and reports success.
C24_AdjustDirectionAndDelta ==
    (Reconciling /\ ~config.dry_run) =>
        \A x \in Resized :
            tick.sent[FirstOf(SentFor(x))].found =>
                /\ Delta(x) > 0 =>
                      /\ Cardinality(DealSends(x)) = 1
                      /\ \A k \in DealSends(x) :
                            /\ tick.sent[k].type = side_to_mt5_order_type(tick.links[x].side)
                            /\ tick.sent[k].volume = Delta(x)
                            /\ IsNone(tick.sent[k].position)
                /\ Delta(x) < 0 =>
                      /\ Cardinality(DealSends(x)) = 1
                      /\ \A k \in DealSends(x) :
                            /\ tick.sent[k].type = side_to_reverse_order_type(tick.links[x].side)
                            /\ tick.sent[k].volume = - Delta(x)
                            /\ tick.sent[k].position = Some(tick.links[x].follower_ticket)
                /\ Delta(x) = 0 =>
                      /\ OrderSends(x) = {}
                      /\ \A i \in CallsFor(x) : tick.calls[i].ok

\* The link records 1.0 lot, the venue reports 0.25 lot, the target is 0.5
\* lot: one buy of 0.25 lot is sent, where the recorded volume would have
\* asked for a sell.
C24_Witness ==
    /\ Reconciling /\ ~config.dry_run
    /\ \E x \in Resized :
          /\ tick.links[x].follower_volume = 1000
          /\ LiveVolume(x) = 250
          /\ Delta(x) = 250
          /\ \E k \in DealSends(x) : /\ tick.sent[k].type = "BUY"
                                     /\ tick.sent[k].volume = 250


\* The venue calls of follower action j of the iteration, as positions of
\* tick.sent; and the actions that asked for the quote and got none.
FrameSent(j) == (tick.frames[j].sfrom + 1)..tick.frames[j].sto

FrameCalls(j) == (tick.frames[j].from + 1)..tick.frames[j].to

QuoteMissed ==
    {j \in 1..Len(tick.frames) :
        \E k \in FrameSent(j) : /\ tick.sent[k].api = "symbol_info_tick"
                                /\ ~tick.sent[k].found}

\* C25: a follower action (open, close, adjust volume, or stop update with
\* the stop validation on) that asks the venue for the quote and gets none
\* sends no order or modification to the venue and reports failure; the
\* iteration goes on to its end, and the loop to its sleep.
C25_QuoteUnavailable ==
    (Reconciling /\ ~config.dry_run) =>
        /\ pc = "sleep" /\ master_open_snapshot = tick.snap
        /\ \A j \in QuoteMissed :
              /\ \A k \in FrameSent(j) : tick.sent[k].api # "order_send"
              /\ FrameCalls(j) # {}
              /\ \A i \in FrameCalls(j) : ~tick.calls[i].ok


\* The send attempts of follower action j, which submits one order.
Attempts(j) == {k \in FrameSent(j) : tick.sent[k].api = "order_send"}

\* C26: the attempts of one order submission number three at most and carry
\* three different filling modes, the first being the cached mode of the
\* symbol when it has one (else fill-or-kill or the mode the broker reports);
\* every attempt but the last was rejected as an unsupported filling mode,
\* and the last was not unless it is the third; when all three were so
\* rejected the action fails; and the cached mode of a symbol changes only to
\* the mode of an attempt that the venue accepted.
C26_BoundedNegotiation ==
    (Reconciling /\ ~config.dry_run) =>
        \A j \in 1..Len(tick.frames) :
            /\ Cardinality(Attempts(j)) <= 3
            /\ \A k1, k2 \in Attempts(j) :
                  tick.sent[k1].type_filling = tick.sent[k2].type_filling => k1 = k2
            /\ \A k \in Attempts(j) :
                  /\ tick.sent[k].type_filling \in FillModeSet
                  /\ k = FirstOf(Attempts(j)) =>
                        IF tick.sent[k].symbol \in DOMAIN tick.frames[j].pre_cache
                        THEN tick.sent[k].type_filling
                                 = tick.frames[j].pre_cache[tick.sent[k].symbol]
                        ELSE tick.sent[k].type_filling
                                 \in {ORDER_FILLING_FOK, ORDER_FILLING_IOC}
                  /\ k # LastOf(Attempts(j)) =>
                        tick.sent[k].retcode = TRADE_RETCODE_INVALID_FILL
                  /\ (k = LastOf(Attempts(j)) /\ Cardinality(Attempts(j)) < 3) =>
                        tick.sent[k].retcode # TRADE_RETCODE_INVALID_FILL
            /\ (/\ Cardinality(Attempts(j)) = 3
                /\ \A k \in Attempts(j) : tick.sent[k].retcode = TRADE_RETCODE_INVALID_FILL)
                  => (FrameCalls(j) # {} /\ \A i \in FrameCalls(j) : ~tick.calls[i].ok)
            /\ \A s \in DOMAIN tick.frames[j].pre_cache :
                  /\ s \in DOMAIN tick.frames[j].post_cache
                  /\ tick.frames[j].post_cache[s] # tick.frames[j].pre_cache[s] =>
                        \E k \in Attempts(j) :
                            /\ tick.sent[k].symbol = s
                            /\ IsDone(tick.sent[k].retcode)
                            /\ tick.sent[k].type_filling = tick.frames[j].post_cache[s]

\* A submission for a symbol whose cached mode is immediate-or-cancel: that
\* mode and then fill-or-kill are rejected as unsupported, the return mode is
\* accepted and replaces the cached one.
C26_Witness ==
    /\ Reconciling /\ ~config.dry_run
    /\ \E j \in 1..Len(tick.frames) :
          /\ Cardinality(Attempts(j)) = 3
          /\ "EURUSD" \in DOMAIN tick.frames[j].pre_cache
          /\ tick.frames[j].pre_cache["EURUSD"] = ORDER_FILLING_IOC
          /\ tick.sent[FirstOf(Attempts(j))].type_filling = ORDER_FILLING_IOC
          /\ tick.sent[FirstOf(Attempts(j)) + 1].type_filling = ORDER_FILLING_FOK
          /\ tick.sent[LastOf(Attempts(j))].type_filling = ORDER_FILLING_RETURN
          /\ IsDone(tick.sent[LastOf(Attempts(j))].retcode)
          /\ tick.frames[j].post_cache["EURUSD"] = ORDER_FILLING_RETURN


\* A level the validator returned for the input level lvl: absent, or lvl
\* rounded to the symbol's digits, on the right side of the entry price
\* (below it when `below`, else above) and at the minimum distance at least.
ValidLevel(out, lvl, below) ==
    \/ IsNone(out)
    \/ /\ ~IsNone(lvl)
       /\ Val(out) = RoundHalfEven(Val(lvl), PriceGrid(tick.info.digits))
       /\ IF below THEN Val(out) < tick.entry_price ELSE Val(out) > tick.entry_price
       /\ tick.info.stop_level * tick.info.point # 0 =>
             Abs(tick.entry_price - Val(out)) >= tick.info.stop_level * tick.info.point

\* C27: with the validation on and the symbol's metadata available, the stop
\* loss and the take profit are each returned absent or as the input level
\* rounded to the symbol's digits; a returned stop loss is strictly below the
\* entry price for a buy and strictly above it for a sell, a returned take
\* profit the other way round, and a returned level is no closer to the
\* entry price than the minimum stop distance the venue declares.
C27_StopValidation ==
    (tick.kind = "validate" /\ config.validate_stops /\ ~config.dry_run) =>
        /\ ValidLevel(tick.out[1], tick.sl, tick.dir01 = 1)
        /\ ValidLevel(tick.out[2], tick.tp, tick.dir01 = 0)


Positive(eq) == ~IsNone(eq) /\ Val(eq) > 0

\* C28: under the equity-ratio rule the ratio is the follower's equity over
\* the master's when both are known and positive, and exactly 1 when either
\* is unknown, zero or negative, the converted size being then the base lots.
C28_EquityRatioFallback ==
    (tick.kind = "ratio" /\ config.volume_mode = "equity_ratio") =>
        IF Positive(tick.master_eq) /\ Positive(tick.follower_equity)
        THEN /\ tick.ratio[1] * Val(tick.master_eq)
                    = tick.ratio[2] * Val(tick.follower_equity)
             /\ tick.lots = (tick.base_lots * Val(tick.follower_equity))
                                \div Val(tick.master_eq)
        ELSE /\ tick.ratio = <<1, 1>>
             /\ tick.lots = tick.base_lots


\* The step, the minimum and the maximum of the metadata of the call, a
\* missing (zero) one being 0.01, 0.01 and 100 lots.
StepOf(info) == IF info.volume_step = 0 THEN 10 ELSE info.volume_step

MinVolume(info) == IF info.volume_min = 0 THEN 10 ELSE info.volume_min

MaxVolume(info) == IF info.volume_max = 0 THEN 100000 ELSE info.volume_max

C30_AutoCloseOff ==
    (Reconciling /\ ~config.close_on_master_close) =>
        \A x \in ClosedByMaster :
            /\ CallsFor(x) = {}
            /\ SentFor(x) = {}
            /\ LinkOpt([links |-> link_map], x) = LinkOpt([links |-> tick.links], x)

\* A linked order has left the snapshot: nothing is sent and its link stays.
C30_Witness ==
    /\ Reconciling /\ ~config.close_on_master_close
    /\ \E x \in ClosedByMaster \cap DOMAIN tick.links :
          /\ x \in DOMAIN link_map
          /\ link_map[x] = tick.links[x]
          /\ tick.sent = <<>>


\* The follower actions of the iteration that were opens and sent an order.
OpenFrames ==
    {j \in 1..Len(tick.frames) :
        /\ Attempts(j) # {}
        /\ \E i \in FrameCalls(j) : tick.calls[i].op = "open"}

\* C31: an order that opens a position for master order x goes to the venue
\* only when the link table holds no link for x, whatever the snapshots and
\* the venue's answers have been (an order number that left the snapshot and
\* came back, a close that failed).
C31_NoDoubleOpen ==
    Reconciling => \A j \in OpenFrames : IsNone(tick.frames[j].pre)


\* C32: with closing on master close enabled, after every completed
\* reconciliation every order number that has a link is in the stored
\* snapshot: no link outlives the master order it mirrors.
C32_LinksTrackMaster ==
    (Reconciling /\ config.close_on_master_close) => DOMAIN link_map \subseteq DOMAIN master_open_snapshot


\* C33: from the empty initial state, when every fetch succeeds, the venue
\* accepts every order and finds every queried position with a positive
\* volume, and closing on master close is enabled, then after every completed
\* reconciliation the linked order numbers are exactly the order numbers of
\* the stored snapshot.
C33_HappyPath ==
    (Reconciling /\ config.close_on_master_close) => DOMAIN link_map = DOMAIN master_open_snapshot


\* The orders the iteration opened: new in the snapshot, with an open call
\* that reported success.
Opened ==
    {x \in (DOMAIN tick.snap \ DOMAIN tick.prev) \cap DOMAIN link_map :
        \E i \in CallsFor(x) : tick.calls[i].op = "open" /\ tick.calls[i].ok}

\* C34: right after a successful open the new link's recorded follower
\* volume is the lot size the accepted order carried (the size after
\* normalization to the volume step and clamping to the venue's minimum and
\* maximum), and is positive.
C34_RecordedVolumeAfterOpen ==
    Reconciling =>
        \A x \in Opened : \A k \in OpenSends(x) :
            IsDone(tick.sent[k].retcode) =>
                /\ link_map[x].follower_volume = tick.sent[k].volume
                /\ link_map[x].follower_volume > 0


\* Two stop levels that are both absent, or both set and no further apart
\* than the tolerance.
Near(a, b) == ChangeSize(a, b) >= 0 /\ ChangeSize(a, b) <= stop_change_abs_tolerance

\* C35: with stops copied, stop validation off and a venue that accepts every
\* stop modification, after every completed reconciliation each link's
\* recorded SL and TP are within the tolerance of the master's current SL and
\* TP for the order, also after a run of changes that are each below the
\* tolerance.
C35_NoStopDrift ==
    (Reconciling /\ config.copy_stops /\ ~config.validate_stops) =>
        \A x \in DOMAIN link_map \cap DOMAIN master_open_snapshot :
            /\ Near(link_map[x].sl, master_open_snapshot[x].stop_loss)
            /\ Near(link_map[x].tp, master_open_snapshot[x].take_profit)


\* C36: with the copy-stops flag off no order sent to the venue carries a
\* stop loss or a take profit and no stop-modification request is sent,
\* whatever stop levels the master sets or changes.
C36_CopyStopsOff ==
    (Reconciling /\ ~config.copy_stops) =>
        \A x \in DOMAIN tick.prev \cup DOMAIN tick.snap :
            /\ StopCalls(x) = {}
            /\ \A k \in OrderSends(x) :
                   /\ tick.sent[k].action # "SLTP"
                   /\ IsNone(tick.sent[k].sl) /\ IsNone(tick.sent[k].tp)

\* The master moved the stop loss of a linked order by more than the
\* tolerance, the flag is off, and the iteration sent nothing for the order.
C36_Witness ==
    /\ Reconciling /\ ~config.copy_stops
    /\ \E x \in Kept :
           /\ stops_changed(tick.prev[x].stop_loss, tick.snap[x].stop_loss)
           /\ OrderSends(x) = {}

====
